---- MODULE Spec2Model ----
(***************************************************************************)
(* Model of the CUDA-GDB coordinate enumeration engine                     *)
(* (gdb/cuda/cuda-coord-set.h) and of the disjoint interval map            *)
(* (gdb/cuda/cuda-rangemap.h).                                             *)
(***************************************************************************)
EXTENDS Integers, Sequences, FiniteSets, TLC

VARIABLES
    m_ranges,   \* cuda_rangemap::m_ranges: start |-> [end, value]
    rm_op,      \* the last cuda_rangemap call, its arguments and its outcome
    gpu,        \* the device state the constructor queries (cuda_state)
    filter,     \* cuda_coord_set constructor argument
    type,       \* template parameter cuda_coord_set_type
    mask,       \* template parameter mask, as the set of its select_ bits
    order,      \* template parameter cuda_coord_compare_type
    m_compare,  \* cuda_coord_set::m_compare: [seq, origin]
    m_coord_set,\* cuda_coord_set::m_coord_set, in iteration order
    foundKernels, \* constructor local
    foundBlocks,  \* constructor local: kernel id |-> set of block indexes
    dev, sm, wp, ln,  \* loop variables of the constructor
    smCnt, wpCnt,     \* constructor locals
    pc,         \* where the constructor is
    cmp_op,     \* the last call on the comparator, its arguments and outcome
    earlier,    \* the snapshot and the members of the construction before,
                \* and the snapshot the present set is built over
    observed,   \* what the last size () or iteration of the set returned
    objs,       \* the copies of the set: id |-> [alive, m_compare,
                \* m_coord_set, cmp_this]
    m_cuda_core,\* cuda_core_target::m_cuda_core: nullptr or the core file open
    api,        \* the debugger API installed by cuda_debugapi::set_api
    target,     \* the cuda_core_target pushed on the inferior, if any
    core_op,    \* the last core file call, its file name and its outcome
    kernel,     \* a cuda_kernel object: its m_ fields
    sms_mask,   \* the cuda_bitset handed to compute_sms_mask
    dbg,        \* what the debug API and cuda_state answer about the grid
    kernel_op   \* the last call on the kernel, its result, and the queries
                \* of the debug API since the last invalidate ()

rmVars == <<m_ranges, rm_op>>

inputVars == <<gpu, filter, type, mask, order>>

ctorVars == <<m_compare, m_coord_set, foundKernels, foundBlocks,
              dev, sm, wp, ln, smCnt, wpCnt, pc>>

lifeVars == <<cmp_op, earlier, observed, objs>>

coreVars == <<m_cuda_core, api, target, core_op>>

kernelVars == <<kernel, sms_mask, dbg, kernel_op>>

hostVars == <<coreVars, kernelVars>>

vars == <<m_ranges, rm_op, gpu, filter, type, mask, order, m_compare,
          m_coord_set, foundKernels, foundBlocks, dev, sm, wp, ln,
          smCnt, wpCnt, pc, cmp_op, earlier, observed, objs, m_cuda_core, api,
          target, core_op, kernel, sms_mask, dbg, kernel_op>>

(***************************************************************************)
(* Bounds of the interval map model.                                       *)
(***************************************************************************)
\* Addresses (CORE_ADDR) range over 0..MaxAddr; start + size never passes
\* MaxAddr, so the 64-bit sum of add never wraps within the bound.
MaxAddr == 3

Addrs == 0..MaxAddr
\* The mapped values T: two distinct values tell an old value from a new one.
Values == {"V", "V2"}

Min(S) == CHOOSE x \in S : \A y \in S : x <= y
Max(S) == CHOOSE x \in S : \A y \in S : y <= x

(***************************************************************************)
(* std::map<CORE_ADDR, std::pair<CORE_ADDR, T>> and its iterators.  An     *)
(* iterator is the key it points at, or cend.                              *)
(***************************************************************************)
cend == -1
\* gdb::optional<T> without a value
Absent == "absent"

Keys(m) == DOMAIN m

begin(m) == IF Keys(m) = {} THEN cend ELSE Min(Keys(m))

\* first element whose key is not less than x
lower_bound(m, x) ==
    LET ge == {k \in Keys(m) : k >= x}
    IN  IF ge = {} THEN cend ELSE Min(ge)

\* first element whose key is greater than x
upper_bound(m, x) ==
    LET gt == {k \in Keys(m) : k > x}
    IN  IF gt = {} THEN cend ELSE Min(gt)

\* --it, for it # begin(m)
prev(m, it) ==
    IF it = cend THEN Max(Keys(m)) ELSE Max({k \in Keys(m) : k < it})

\* m_ranges[start] = std::make_pair (end, value)
assign(m, start, end, value) ==
    [k \in Keys(m) \cup {start} |->
        IF k = start THEN [end |-> end, value |-> value] ELSE m[k]]

\* m_ranges.erase (it)
erase(m, it) == [k \in Keys(m) \ {it} |-> m[k]]

(***************************************************************************)
(* cuda_rangemap::add, remove_range, get, find                             *)
(***************************************************************************)
\* a mutation of the assertion: compares the previous end with the new end
AddAssertEndBug(m, start, size) ==
    LET end == start + size
        it  == lower_bound(m, end)
    IN  IF it # begin(m) THEN m[prev(m, it)].end <= end ELSE TRUE

\* a mutation of the assertion: strict comparison
AddAssertStrictBug(m, start, size) ==
    LET end == start + size
        it  == lower_bound(m, end)
    IN  IF it # begin(m) THEN m[prev(m, it)].end < start ELSE TRUE

\* the gdb_assert of add: TRUE when it passes
AddAssertOK(m, start, size) ==
    LET end == start + size
        it  == lower_bound(m, end)
    IN  IF it # begin(m) THEN m[prev(m, it)].end <= start ELSE TRUE

\* the map after an add that passed the assertion
AddResult(m, start, size, value) == assign(m, start, start + size, value)

find(m, addr) ==
    LET it == upper_bound(m, addr)
    IN  IF it = begin(m) THEN cend
        ELSE LET p == prev(m, it)
             IN  IF m[p].end < addr THEN cend ELSE p

get(m, addr) ==
    LET it == find(m, addr)
    IN  IF it = cend THEN Absent ELSE m[it].value

RemoveResult(m, addr) ==
    LET it == find(m, addr)
    IN  IF it # cend THEN erase(m, it) ELSE m

NoOp == [op |-> "none", start |-> 0, size |-> 0, value |-> Absent, addr |-> 0,
         res |-> "none"]

Add(start, size, value) ==
    /\ start + size <= MaxAddr
    /\ UNCHANGED <<hostVars, inputVars, ctorVars, lifeVars>>
    /\ IF AddAssertOK(m_ranges, start, size)
       THEN /\ m_ranges' = AddResult(m_ranges, start, size, value)
            /\ rm_op' = [NoOp EXCEPT !.op = "add", !.start = start,
                           !.size = size, !.value = value, !.res = "ok"]
       ELSE \* gdb_assert fails: internal error, the map is left as it was
            /\ m_ranges' = m_ranges
            /\ rm_op' = [NoOp EXCEPT !.op = "add", !.start = start,
                           !.size = size, !.value = value, !.res = "assert"]

RemoveRange(addr) ==
    /\ UNCHANGED <<hostVars, inputVars, ctorVars, lifeVars>>
    /\ m_ranges' = RemoveResult(m_ranges, addr)
    /\ rm_op' = [NoOp EXCEPT !.op = "remove", !.addr = addr,
                   !.res = IF find(m_ranges, addr) # cend THEN "erased"
                           ELSE "noop"]

Get(addr) ==
    /\ UNCHANGED <<hostVars, inputVars, ctorVars, lifeVars>>
    /\ m_ranges' = m_ranges
    /\ rm_op' = [NoOp EXCEPT !.op = "get", !.addr = addr,
                   !.value = get(m_ranges, addr),
                   !.res = IF get(m_ranges, addr) = Absent THEN "absent"
                           ELSE "found"]

RmAdd == \E start \in Addrs, size \in 0..MaxAddr, value \in Values :
            Add(start, size, value)

RmRemove == \E addr \in Addrs : RemoveRange(addr)

RmGet == \E addr \in Addrs : Get(addr)

(***************************************************************************)
(* cuda-corelow.c: the handle of the open core file                        *)
(***************************************************************************)
nullptr == 0

\* the core files a caller can name
NumFiles == 2
Files == 1..NumFiles

NoCoreOp == [op |-> "none", file |-> 0, res |-> "none"]

\* no core file was ever opened
NoCore ==
    /\ m_cuda_core = nullptr
    /\ api = nullptr
    /\ target = nullptr
    /\ core_op = NoCoreOp

(***************************************************************************)
(* cuda-kernel.c: a kernel object                                          *)
(***************************************************************************)
\* cuda_kernel::cuda_kernel: the fields the model follows, as the constructor
\* leaves them
NewKernel(kernel_id, dev_id, grid_id, cluster_dim, parent_grid_id) ==
    [m_id |-> kernel_id, m_dev_id |-> dev_id, m_grid_id |-> grid_id,
     m_cluster_dim_p |-> TRUE, m_cluster_dim |-> cluster_dim,
     m_grid_status_p |-> FALSE, m_grid_status |-> "INVALID",
     m_parent_grid_id |-> parent_grid_id, m_depth_p |-> FALSE, m_depth |-> 0]

NoKernelOp ==
    [op |-> "none", res |-> <<>>, invalidated |-> FALSE,
     q_cluster |-> 0, q_status |-> 0]

\* the answers of the debug API and of cuda_state about the kernel's grid
NoDbg == [clusterDim |-> <<0, 0, 0>>, status |-> "INVALID", parent_depth |-> 0]

\* no kernel object is looked at
NoKernelObj ==
    /\ kernel = NewKernel(0, 0, 0, <<0, 0, 0>>, 0)
    /\ sms_mask = <<>>
    /\ dbg = NoDbg
    /\ kernel_op = NoKernelOp

\* nothing happened outside the coordinate set and the interval map
NoHost == NoCore /\ NoKernelObj

\* cuda_rangemap () = default
EmptyMap ==
    /\ m_ranges = [k \in {} |-> [end |-> 0, value |-> Absent]]
    /\ rm_op = NoOp

(***************************************************************************)
(* Coordinates (cuda_coords).  A CuDim3 is the tuple <<x, y, z>>.  The     *)
(* special values are larger than every concrete value, as the unsigned    *)
(* all-ones patterns of the program are.                                   *)
(***************************************************************************)
CUDA_INVALID == 99
CUDA_WILDCARD == 98
CUDA_IGNORE == 97

Dim3(x, y, z) == <<x, y, z>>
CUDA_INVALID_DIM == Dim3(CUDA_INVALID, CUDA_INVALID, CUDA_INVALID)
CUDA_WILDCARD_DIM == Dim3(CUDA_WILDCARD, CUDA_WILDCARD, CUDA_WILDCARD)
CUDA_IGNORE_DIM == Dim3(CUDA_IGNORE, CUDA_IGNORE, CUDA_IGNORE)

\* cuda_coords{dev, sm, wp, ln, kernelId, gridId, clusterIdx, blockIdx, threadIdx}
Coords(d, s, w, l, k, g, c, b, t) ==
    [dev |-> d, sm |-> s, wp |-> w, ln |-> l, kernelId |-> k, gridId |-> g,
     clusterIdx |-> c, blockIdx |-> b, threadIdx |-> t]

\* cuda_coords::wild ()
WildCoords ==
    Coords(CUDA_WILDCARD, CUDA_WILDCARD, CUDA_WILDCARD, CUDA_WILDCARD,
           CUDA_WILDCARD, CUDA_WILDCARD, CUDA_WILDCARD_DIM, CUDA_WILDCARD_DIM,
           CUDA_WILDCARD_DIM)

\* cuda_coords::physical (), as the tuple its operator< compares
Physical(c) == <<c.dev, c.sm, c.wp, c.ln>>

\* cuda_coords::logical (), as the tuple its operator< compares
Logical(c) ==
    <<c.kernelId, c.gridId>> \o c.clusterIdx \o c.blockIdx \o c.threadIdx

\* lexicographic less-than of two tuples of the same length
LexLess(a, b) ==
    \E i \in 1..Len(a) : a[i] < b[i] /\ \A j \in 1..(i - 1) : a[j] = b[j]

\* cuda_coord_equals on a scalar field: a wildcard matches every value
cuda_coord_equals(lhs, rhs) ==
    lhs = CUDA_WILDCARD \/ rhs = CUDA_WILDCARD \/ lhs = rhs

\* cuda_coord_equals on a CuDim3 field
cuda_coord_equals_dim(lhs, rhs) ==
    \A i \in 1..3 : cuda_coord_equals(lhs[i], rhs[i])

\* isFullyDefined of the physical or the logical part: no wildcard field
isFullyDefined(t) == \A i \in 1..Len(t) : t[i] # CUDA_WILDCARD

(***************************************************************************)
(* cuda_coord_compare                                                      *)
(***************************************************************************)
Distance(o, v) == IF v >= o THEN v - o ELSE o - v

\* cuda_coord_distance decides on a field when the origin is concrete there
\* and the operands' distances from it differ
DistanceDecides(o, l, r) == o # CUDA_WILDCARD /\ Distance(o, l) # Distance(o, r)

\* the comparison that answers "less or equal" when no field decides
CompareByDistanceLeq(o, l, r, fl, fr) ==
    LET dec == {i \in 1..Len(o) : DistanceDecides(o[i], l[i], r[i])}
    IN  IF dec = {} THEN ~LexLess(fr, fl)
        ELSE LET i == Min(dec)
             IN  Distance(o[i], l[i]) < Distance(o[i], r[i])

\* the comparison that never looks at the distances
CompareRaw(o, l, r, fl, fr) == LexLess(fl, fr)

\* the comparison by distance over the field tuples o, l, r, falling back
\* to the raw comparison of the tuples fl, fr when no field decides
CompareByDistance(o, l, r, fl, fr) ==
    LET dec == {i \in 1..Len(o) : DistanceDecides(o[i], l[i], r[i])}
    IN  IF dec = {} THEN LexLess(fl, fr)
        ELSE LET i == Min(dec)
             IN  Distance(o[i], l[i]) < Distance(o[i], r[i])

\* the fields the logical origin comparison walks: kernelId, gridId,
\* blockIdx, threadIdx
LogicalDistanceFields(c) == <<c.kernelId, c.gridId>> \o c.blockIdx \o c.threadIdx

\* the gdb_assert of the origin mode fails
CompareAsserts(cmp, ord, lhs, rhs) ==
    /\ ~cmp.seq
    /\ IF ord = "logical"
       THEN ~(isFullyDefined(Logical(lhs)) /\ isFullyDefined(Logical(rhs)))
       ELSE ~(isFullyDefined(Physical(lhs)) /\ isFullyDefined(Physical(rhs)))

\* cuda_coord_compare::operator()
Compare(cmp, ord, lhs, rhs) ==
    IF cmp.seq
    THEN IF ord = "logical" THEN LexLess(Logical(lhs), Logical(rhs))
         ELSE LexLess(Physical(lhs), Physical(rhs))
    ELSE IF ord = "logical"
         THEN CompareByDistance(LogicalDistanceFields(cmp.origin),
                                LogicalDistanceFields(lhs),
                                LogicalDistanceFields(rhs),
                                Logical(lhs), Logical(rhs))
         ELSE CompareByDistance(Physical(cmp.origin), Physical(lhs),
                                Physical(rhs), Physical(lhs), Physical(rhs))

(***************************************************************************)
(* std::set<cuda_coords, comparator>, as the sequence of its members in    *)
(* iteration order.                                                        *)
(***************************************************************************)
\* the position of the first member that is not less than c
LowerBoundPos(set, cmp, ord, c) ==
    LET notLess == {i \in 1..Len(set) : ~Compare(cmp, ord, set[i], c)}
    IN  IF notLess = {} THEN Len(set) + 1 ELSE Min(notLess)

\* an emplace that appends
EmplaceBack(set, cmp, ord, c) == Append(set, c)

\* std::set::emplace: c is dropped when a member is equivalent to it
Emplace(set, cmp, ord, c) ==
    LET pos == LowerBoundPos(set, cmp, ord, c)
    IN  IF pos <= Len(set) /\ ~Compare(cmp, ord, c, set[pos])
        THEN set
        ELSE SubSeq(set, 1, pos - 1) \o <<c>> \o SubSeq(set, pos, Len(set))

\* the comparator is called on c and members of a non-empty set
EmplaceAsserts(set, cmp, ord, c) ==
    \E i \in 1..Len(set) : CompareAsserts(cmp, ord, c, set[i])

(***************************************************************************)
(* cuda_state: the device state provider the constructor queries           *)
(***************************************************************************)
get_num_devices == Len(gpu.devs)
device_get_num_sms(d) == gpu.devs[d + 1].sms
device_get_num_warps(d) == gpu.devs[d + 1].warps
device_get_num_lanes(d) == gpu.devs[d + 1].lanes

sm_valid(d, s) == <<d, s>> \in gpu.sm_valid
sm_has_exception(d, s) == <<d, s>> \in gpu.sm_excpt
warp_valid(d, s, w) == <<d, s, w>> \in gpu.warp_valid
warp_broken(d, s, w) == <<d, s, w>> \in gpu.warp_broken
warp_timestamp_valid(d, s, w) == <<d, s, w>> \in DOMAIN gpu.warp_ts
warp_timestamp(d, s, w) == gpu.warp_ts[<<d, s, w>>]
cuda_clock == gpu.clock

\* no kernel: warp_get_kernel returns nullptr
NoKernel == [null |-> TRUE, id |-> CUDA_INVALID, cluster_dim |-> Dim3(0, 0, 0)]
Kernel(id, cdim) == [null |-> FALSE, id |-> id, cluster_dim |-> cdim]

warp_get_kernel(d, s, w) ==
    IF <<d, s, w>> \in DOMAIN gpu.warp_info
    THEN gpu.warp_info[<<d, s, w>>].kernel ELSE NoKernel
warp_get_grid_id(d, s, w) == gpu.warp_info[<<d, s, w>>].grid_id
warp_get_block_idx(d, s, w) == gpu.warp_info[<<d, s, w>>].block_idx
warp_get_cluster_idx(d, s, w) == gpu.warp_info[<<d, s, w>>].cluster_idx

lane_valid(d, s, w, l) == <<d, s, w, l>> \in gpu.lane_valid
lane_active(d, s, w, l) == <<d, s, w, l>> \in gpu.lane_active
lane_timestamp_valid(d, s, w, l) == <<d, s, w, l>> \in DOMAIN gpu.lane_ts
lane_timestamp(d, s, w, l) == gpu.lane_ts[<<d, s, w, l>>]
\* breakpoint_here_p (aspace, lane_get_pc (dev, sm, wp, ln))
lane_at_breakpoint(d, s, w, l) == <<d, s, w, l>> \in gpu.lane_bkpt
lane_get_exception(d, s, w, l) == <<d, s, w, l>> \in gpu.lane_excpt
lane_get_thread_idx(d, s, w, l) == gpu.lane_tidx[<<d, s, w, l>>]

(***************************************************************************)
(* cuda_coord_set: the per-type switches and the mask bits                 *)
(***************************************************************************)
SetTypes == {"devices", "sms", "warps", "lanes", "kernels", "blocks", "threads"}
CompareTypes == {"logical", "physical"}

physical_type == type \in {"devices", "sms", "warps", "lanes"}
logical_type == type \in {"kernels", "blocks", "threads"}
storeSm == type \in {"sms", "warps", "lanes", "blocks", "threads"}
storeWarp == type \in {"warps", "lanes", "threads"}
storeLane == type \in {"lanes", "threads"}
\* the kernel kept at the logical granularities only
storeKernelLogicalOnly == type \in {"kernels", "blocks", "threads"}

storeKernel == type \in {"sms", "warps", "lanes", "kernels", "blocks", "threads"}
storeBlock == type \in {"warps", "lanes", "blocks", "threads"}
storeThread == type \in {"warps", "lanes", "blocks", "threads"}

valid == "select_valid" \in mask
atBreakpoint == "select_bkpt" \in mask
atException == "select_excpt" \in mask
atAnyException == "select_sm_at_excpt" \in mask
single == "select_sngl" \in mask
atTrap == "select_trap" \in mask
atClock == "select_current_clock" \in mask
active == "select_active" \in mask

(***************************************************************************)
(* The constructor's warp-level locals, for the warp (d, s, w)             *)
(***************************************************************************)
validWarp(d, s, w) == sm_valid(d, s) /\ warp_valid(d, s, w)

\* the kernel id read from the provider whether or not the warp is valid
kernelIdOfStale(d, s, w) == warp_get_kernel(d, s, w).id

kernelIdOf(d, s, w) ==
    IF validWarp(d, s, w) THEN warp_get_kernel(d, s, w).id ELSE CUDA_INVALID

clusterIdxOf(d, s, w) ==
    IF validWarp(d, s, w)
    THEN LET clusterDim == warp_get_kernel(d, s, w).cluster_dim
         IN  IF clusterDim[1] # 0 /\ clusterDim[2] # 0 /\ clusterDim[3] # 0
             THEN warp_get_cluster_idx(d, s, w)
             ELSE CUDA_IGNORE_DIM
    ELSE CUDA_INVALID_DIM

gridIdOf(d, s, w) ==
    IF validWarp(d, s, w) THEN warp_get_grid_id(d, s, w) ELSE CUDA_INVALID

blockIdxOf(d, s, w) ==
    IF validWarp(d, s, w) THEN warp_get_block_idx(d, s, w) ELSE CUDA_INVALID_DIM

threadIdxOf(d, s, w, l) ==
    IF sm_valid(d, s) /\ warp_valid(d, s, w) /\ lane_valid(d, s, w, l)
    THEN lane_get_thread_idx(d, s, w, l)
    ELSE CUDA_INVALID_DIM

(***************************************************************************)
(* The `continue' conditions of the four loops                             *)
(***************************************************************************)
DevSkip(d) == ~cuda_coord_equals(filter.dev, d)

SmSkip(d, s) ==
    \/ ~cuda_coord_equals(filter.sm, s)
    \/ ((atException \/ atAnyException) /\ ~sm_has_exception(d, s))
    \/ (valid /\ ~sm_valid(d, s))

\* the conditions before the kernel lookup without the test of the clock
WarpSkipEarlyNoClock(d, s, w) ==
    \/ ~cuda_coord_equals(filter.wp, w)
    \/ (~validWarp(d, s, w) /\ (valid \/ logical_type))
    \/ (atTrap /\ ~warp_broken(d, s, w))

\* the conditions before the kernel of the warp is looked up
WarpSkipEarly(d, s, w) ==
    \/ ~cuda_coord_equals(filter.wp, w)
    \/ (~validWarp(d, s, w) /\ (valid \/ logical_type))
    \/ (/\ atClock
        /\ warp_timestamp_valid(d, s, w)
        /\ warp_timestamp(d, s, w) < cuda_clock)
    \/ (atTrap /\ ~warp_broken(d, s, w))

\* gdb_assert (kernel) taken out
KernelAssertNever(d, s, w) == FALSE

\* gdb_assert (kernel) fails
KernelAssertFails(d, s, w) == validWarp(d, s, w) /\ warp_get_kernel(d, s, w).null

WarpFilterSkip(d, s, w) ==
    \/ ~cuda_coord_equals(filter.kernelId, kernelIdOf(d, s, w))
    \/ ~cuda_coord_equals(filter.gridId, gridIdOf(d, s, w))
    \/ ~cuda_coord_equals_dim(filter.blockIdx, blockIdxOf(d, s, w))

\* the kernel or block of the warp was seen before
SeenBefore(d, s, w) ==
    IF type = "kernels" THEN kernelIdOf(d, s, w) \in foundKernels
    ELSE IF type = "blocks"
         THEN /\ kernelIdOf(d, s, w) \in DOMAIN foundBlocks
              /\ blockIdxOf(d, s, w) \in foundBlocks[kernelIdOf(d, s, w)]
         ELSE FALSE

MarkKernel(d, s, w) ==
    IF type = "kernels" THEN foundKernels \cup {kernelIdOf(d, s, w)}
    ELSE foundKernels

MarkBlock(d, s, w) ==
    IF type = "blocks"
    THEN LET k == kernelIdOf(d, s, w)
         IN  [x \in DOMAIN foundBlocks \cup {k} |->
                 IF x = k
                 THEN (IF k \in DOMAIN foundBlocks THEN foundBlocks[k] ELSE {})
                      \cup {blockIdxOf(d, s, w)}
                 ELSE foundBlocks[x]]
    ELSE foundBlocks

\* the lane conditions without the validity test of the lane
LaneSkipNoValid(d, s, w, l) ==
    \/ ~cuda_coord_equals(filter.ln, l)
    \/ (active /\ ~lane_active(d, s, w, l))
    \/ ~cuda_coord_equals_dim(filter.threadIdx, threadIdxOf(d, s, w, l))

\* the lane conditions whose breakpoint, exception and trap tests look at
\* the flag alone
LaneSkipFlagOnly(d, s, w, l) ==
    \/ ~cuda_coord_equals(filter.ln, l)
    \/ (valid /\ ~lane_valid(d, s, w, l))
    \/ (active /\ ~lane_active(d, s, w, l))
    \/ (/\ atClock
        /\ lane_timestamp_valid(d, s, w, l)
        /\ lane_timestamp(d, s, w, l) < cuda_clock)
    \/ (atBreakpoint /\ ~lane_at_breakpoint(d, s, w, l))
    \/ (atException /\ ~lane_get_exception(d, s, w, l))
    \/ ~cuda_coord_equals_dim(filter.threadIdx, threadIdxOf(d, s, w, l))

LaneSkip(d, s, w, l) ==
    \/ ~cuda_coord_equals(filter.ln, l)
    \/ (valid /\ ~lane_valid(d, s, w, l))
    \/ (active /\ ~lane_active(d, s, w, l))
    \/ (/\ atClock
        /\ lane_timestamp_valid(d, s, w, l)
        /\ lane_timestamp(d, s, w, l) < cuda_clock)
    \/ (/\ atBreakpoint
        /\ \/ ~sm_valid(d, s)
           \/ ~warp_valid(d, s, w)
           \/ ~lane_valid(d, s, w, l)
           \/ ~lane_active(d, s, w, l)
           \/ ~lane_at_breakpoint(d, s, w, l))
    \/ (/\ atException
        /\ \/ ~sm_valid(d, s)
           \/ ~warp_valid(d, s, w)
           \/ ~lane_valid(d, s, w, l)
           \/ ~lane_active(d, s, w, l)
           \/ ~lane_get_exception(d, s, w, l))
    \/ (/\ atTrap
        /\ \/ ~sm_valid(d, s)
           \/ ~warp_valid(d, s, w)
           \/ ~lane_valid(d, s, w, l)
           \/ ~lane_active(d, s, w, l))
    \/ ~cuda_coord_equals_dim(filter.threadIdx, threadIdxOf(d, s, w, l))

\* the coordinate stored for the lane (d, s, w, l)
OutputCoord(d, s, w, l) ==
    Coords(d,
           IF storeSm THEN s ELSE CUDA_WILDCARD,
           IF storeWarp THEN w ELSE CUDA_WILDCARD,
           IF storeLane THEN l ELSE CUDA_WILDCARD,
           IF storeKernel THEN kernelIdOf(d, s, w) ELSE CUDA_WILDCARD,
           IF storeKernel THEN gridIdOf(d, s, w) ELSE CUDA_WILDCARD,
           IF storeBlock THEN clusterIdxOf(d, s, w) ELSE CUDA_WILDCARD_DIM,
           IF storeBlock THEN blockIdxOf(d, s, w) ELSE CUDA_WILDCARD_DIM,
           IF storeThread THEN threadIdxOf(d, s, w, l) ELSE CUDA_WILDCARD_DIM)

\* the lane loop ends after one entry for these types
OneEntryPerWarp == type \in {"devices", "sms", "warps", "kernels", "blocks"}

(***************************************************************************)
(* The constructor, one action per loop head and per loop exit             *)
(***************************************************************************)
\* for (dev = 0; dev < get_num_devices (); ++dev)
DevLoop ==
    /\ pc = "dev_loop"
    /\ UNCHANGED <<hostVars, rmVars, lifeVars, inputVars, m_compare, m_coord_set, foundKernels,
                   foundBlocks, wp, ln, smCnt, wpCnt>>
    /\ IF dev >= get_num_devices
       THEN pc' = "done" /\ UNCHANGED <<dev, sm>>
       ELSE IF DevSkip(dev)
            THEN dev' = dev + 1 /\ UNCHANGED <<sm, pc>>
            ELSE sm' = 0 /\ pc' = "sm_loop" /\ UNCHANGED dev

\* for (sm = 0; sm < device_get_num_sms (dev); ++sm)
SmLoop ==
    /\ pc = "sm_loop"
    /\ UNCHANGED <<hostVars, rmVars, lifeVars, inputVars, m_compare, m_coord_set, foundKernels,
                   foundBlocks, dev, ln, wpCnt>>
    /\ IF sm >= device_get_num_sms(dev)
       THEN pc' = "sm_exit" /\ UNCHANGED <<sm, wp, smCnt>>
       ELSE IF SmSkip(dev, sm)
            THEN sm' = sm + 1 /\ UNCHANGED <<wp, smCnt, pc>>
            ELSE /\ smCnt' = Len(m_coord_set)
                 /\ wp' = 0
                 /\ pc' = "wp_loop"
                 /\ UNCHANGED sm

\* the code after the sm loop, in the body of the device loop
SmExit ==
    /\ pc = "sm_exit"
    /\ UNCHANGED <<hostVars, rmVars, lifeVars, inputVars, m_compare, m_coord_set, foundKernels,
                   foundBlocks, sm, wp, ln, smCnt, wpCnt>>
    /\ IF single /\ Len(m_coord_set) > 0
       THEN pc' = "done" /\ UNCHANGED dev
       ELSE dev' = dev + 1 /\ pc' = "dev_loop"

\* for (wp = 0; wp < device_get_num_warps (dev); ++wp)
WpLoop ==
    /\ pc = "wp_loop"
    /\ UNCHANGED <<hostVars, rmVars, lifeVars, inputVars, m_compare, m_coord_set, dev, sm, smCnt>>
    /\ IF wp >= device_get_num_warps(dev)
       THEN pc' = "wp_exit" /\ UNCHANGED <<wp, ln, wpCnt, foundKernels, foundBlocks>>
       ELSE IF WarpSkipEarly(dev, sm, wp)
            THEN wp' = wp + 1 /\ UNCHANGED <<ln, wpCnt, foundKernels, foundBlocks, pc>>
            ELSE IF KernelAssertFails(dev, sm, wp)
                 THEN pc' = "assert_kernel"
                      /\ UNCHANGED <<wp, ln, wpCnt, foundKernels, foundBlocks>>
                 ELSE IF WarpFilterSkip(dev, sm, wp) \/ SeenBefore(dev, sm, wp)
                      THEN wp' = wp + 1
                           /\ UNCHANGED <<ln, wpCnt, foundKernels, foundBlocks, pc>>
                      ELSE /\ foundKernels' = MarkKernel(dev, sm, wp)
                           /\ foundBlocks' = MarkBlock(dev, sm, wp)
                           /\ wpCnt' = Len(m_coord_set)
                           /\ ln' = 0
                           /\ pc' = "ln_loop"
                           /\ UNCHANGED wp

\* the code after the warp loop, in the body of the sm loop
WpExit ==
    /\ pc = "wp_exit"
    /\ UNCHANGED <<hostVars, rmVars, lifeVars, inputVars, m_compare, m_coord_set, foundKernels,
                   foundBlocks, dev, wp, ln, smCnt, wpCnt>>
    /\ IF single /\ Len(m_coord_set) > 0
       THEN pc' = "sm_exit" /\ UNCHANGED sm
       ELSE IF type = "devices" /\ Len(m_coord_set) > smCnt
            THEN pc' = "sm_exit" /\ UNCHANGED sm
            ELSE sm' = sm + 1 /\ pc' = "sm_loop"

\* for (ln = 0; ln < device_get_num_lanes (dev); ++ln)
LnLoop ==
    /\ pc = "ln_loop"
    /\ UNCHANGED <<hostVars, rmVars, lifeVars, inputVars, m_compare, foundKernels, foundBlocks,
                   dev, sm, wp, smCnt, wpCnt>>
    /\ IF ln >= device_get_num_lanes(dev)
       THEN pc' = "ln_exit" /\ UNCHANGED <<ln, m_coord_set>>
       ELSE IF LaneSkip(dev, sm, wp, ln)
            THEN ln' = ln + 1 /\ UNCHANGED <<pc, m_coord_set>>
            ELSE IF EmplaceAsserts(m_coord_set, m_compare, order,
                                   OutputCoord(dev, sm, wp, ln))
                 THEN pc' = "assert_compare" /\ UNCHANGED <<ln, m_coord_set>>
                 ELSE /\ m_coord_set' = Emplace(m_coord_set, m_compare, order,
                                                OutputCoord(dev, sm, wp, ln))
                      /\ IF single \/ OneEntryPerWarp
                         THEN pc' = "ln_exit" /\ UNCHANGED ln
                         ELSE ln' = ln + 1 /\ UNCHANGED pc

\* the code after the lane loop without the test of the single bit
LnExitNoSingle ==
    /\ pc = "ln_exit"
    /\ UNCHANGED <<hostVars, rmVars, lifeVars, inputVars, m_compare, m_coord_set, foundKernels,
                   foundBlocks, dev, sm, ln, smCnt, wpCnt>>
    /\ IF type \in {"devices", "sms"} /\ Len(m_coord_set) > wpCnt
       THEN pc' = "wp_exit" /\ UNCHANGED wp
       ELSE wp' = wp + 1 /\ pc' = "wp_loop"

\* the code after the lane loop, in the body of the warp loop
LnExit ==
    /\ pc = "ln_exit"
    /\ UNCHANGED <<hostVars, rmVars, lifeVars, inputVars, m_compare, m_coord_set, foundKernels,
                   foundBlocks, dev, sm, ln, smCnt, wpCnt>>
    /\ IF single /\ Len(m_coord_set) > 0
       THEN pc' = "wp_exit" /\ UNCHANGED wp
       ELSE IF type \in {"devices", "sms"} /\ Len(m_coord_set) > wpCnt
            THEN pc' = "wp_exit" /\ UNCHANGED wp
            ELSE wp' = wp + 1 /\ pc' = "wp_loop"

NextCoordSet == DevLoop \/ SmLoop \/ SmExit \/ WpLoop \/ WpExit \/ LnLoop \/ LnExit

\* the constructor ran to its end
Done == pc = "done"

(***************************************************************************)
(* Initial states: the state at the entry of the device loop, for a        *)
(* provider snapshot g, filter f, type t, mask m and compare type o        *)
(***************************************************************************)
\* cuda_coord_compare (): sequential order
SequentialCompare == [seq |-> TRUE, origin |-> WildCoords]

InitCtor(g, f, t, m, o, cmp) ==
    /\ gpu = g
    /\ filter = f
    /\ type = t
    /\ mask = m
    /\ order = o
    /\ m_compare = cmp
    /\ m_coord_set = <<>>
    /\ foundKernels = {}
    /\ foundBlocks = [k \in {} |-> {}]
    /\ dev = 0 /\ sm = 0 /\ wp = 0 /\ ln = 0
    /\ smCnt = 0 /\ wpCnt = 0
    /\ pc = "dev_loop"

\* a provider without devices
NoGpu ==
    [devs |-> <<>>, sm_valid |-> {}, sm_excpt |-> {}, warp_valid |-> {},
     warp_broken |-> {}, warp_ts |-> [x \in {} |-> 0], clock |-> 0,
     warp_info |-> [x \in {} |-> 0], lane_valid |-> {}, lane_active |-> {},
     lane_ts |-> [x \in {} |-> 0], lane_bkpt |-> {}, lane_excpt |-> {},
     lane_tidx |-> [x \in {} |-> 0]]

\* no coordinate set is under construction
NoCoordSet ==
    /\ InitCtor(NoGpu, WildCoords, "threads", {}, "logical", SequentialCompare)

\* the comparator was not called yet
NoCmpOp == [op |-> "none", lhs |-> WildCoords, rhs |-> WildCoords, res |-> FALSE]

\* no construction came before
NoEarlier == [built |-> FALSE, gpu |-> NoGpu, members |-> <<>>, over |-> NoGpu]

\* no accessor was called yet
NoObserved == [op |-> "none", size |-> 0, members |-> <<>>]

\* no copy of the set exists
NoObjs == <<>>

\* nothing happened yet besides the construction
NoLife ==
    /\ cmp_op = NoCmpOp
    /\ earlier = NoEarlier
    /\ observed = NoObserved
    /\ objs = NoObjs

(***************************************************************************)
(* Bounds of the provider snapshots                                        *)
(***************************************************************************)
NumDevs == 2
NumSms == 2
NumWarps == 2
NumLanes == 2

Topology == [i \in 1..NumDevs |-> [sms |-> NumSms, warps |-> NumWarps, lanes |-> NumLanes]]

AllSms == (0..(NumDevs - 1)) \X (0..(NumSms - 1))
AllWarps == (0..(NumDevs - 1)) \X (0..(NumSms - 1)) \X (0..(NumWarps - 1))
AllLanes == (0..(NumDevs - 1)) \X (0..(NumSms - 1)) \X (0..(NumWarps - 1))
              \X (0..(NumLanes - 1))

SmOf(x) == <<x[1], x[2]>>
WarpOf(x) == <<x[1], x[2], x[3]>>

\* How warps are bound to kernels.  "one": one kernel, one block per SM,
\* thread indexes running over the warps of the SM.  "per_warp": each warp
\* runs a kernel of its own.  A third layout, "clash", gives every warp the
\* same kernel and block and numbers the threads by lane only, so that lanes
\* of different warps share their logical coordinates.  A fourth, "reverse",
\* numbers the kernels and the threads against the traversal order.
Layouts == {"one", "per_warp"}

WarpInfo(layout, x) ==
    IF layout = "reverse"
    THEN [kernel |-> Kernel(NumDevs * NumSms * NumWarps
                              - ((x[1] * NumSms + x[2]) * NumWarps + x[3]),
                            Dim3(0, 0, 0)),
          grid_id |-> 1, block_idx |-> Dim3(0, 0, 0),
          cluster_idx |-> Dim3(0, 0, 0)]
    ELSE IF layout = "clash"
    THEN [kernel |-> Kernel(1, Dim3(0, 0, 0)), grid_id |-> 1,
          block_idx |-> Dim3(0, 0, 0), cluster_idx |-> Dim3(0, 0, 0)]
    ELSE IF layout = "one"
    THEN [kernel |-> Kernel(1, Dim3(0, 0, 0)), grid_id |-> 1,
          block_idx |-> Dim3(x[1] * NumSms + x[2], 0, 0),
          cluster_idx |-> Dim3(0, 0, 0)]
    ELSE [kernel |-> Kernel(1 + (x[1] * NumSms + x[2]) * NumWarps + x[3],
                            Dim3(0, 0, 0)),
          grid_id |-> 1 + (x[1] * NumSms + x[2]) * NumWarps + x[3],
          block_idx |-> Dim3(0, 0, 0),
          cluster_idx |-> Dim3(0, 0, 0)]

ThreadIdx(layout, x) ==
    IF layout = "reverse" THEN Dim3(NumLanes - 1 - x[4], 0, 0)
    ELSE IF layout = "one" THEN Dim3(x[3] * NumLanes + x[4], 0, 0)
    ELSE Dim3(x[4], 0, 0)

\* What is wrong with the first of the two live lanes.
Defects == {"none", "sm", "warp", "lane", "inactive"}

\* A snapshot with the live lanes p and q: their SMs, warps and lanes are
\* valid and active, but for the defect of p; every other unit is invalid.
Sparse(p, q, defect, layout) ==
    [NoGpu EXCEPT
       !.devs = Topology,
       !.sm_valid = {SmOf(p), SmOf(q)} \ (IF defect = "sm" THEN {SmOf(p)} ELSE {}),
       !.warp_valid = {WarpOf(p), WarpOf(q)}
                        \ (IF defect = "warp" THEN {WarpOf(p)} ELSE {}),
       !.lane_valid = {p, q} \ (IF defect = "lane" THEN {p} ELSE {}),
       !.lane_active = {p, q} \ (IF defect = "inactive" THEN {p} ELSE {}),
       !.warp_info = [x \in {WarpOf(p), WarpOf(q)} |-> WarpInfo(layout, x)],
       !.lane_tidx = [x \in {p, q} |-> ThreadIdx(layout, x)]]

\* A snapshot in which every unit is valid and active.
Dense(layout) ==
    [NoGpu EXCEPT
       !.devs = Topology,
       !.sm_valid = AllSms,
       !.warp_valid = AllWarps,
       !.lane_valid = AllLanes,
       !.lane_active = AllLanes,
       !.warp_info = [x \in AllWarps |-> WarpInfo(layout, x)],
       !.lane_tidx = [x \in AllLanes |-> ThreadIdx(layout, x)]]

\* Where the second live lane is, relative to the first: the same lane, or
\* the lane that differs from it at one level of the hierarchy.
Relations == {"same", "lane", "warp", "sm", "dev"}

Other(p, rel) ==
    <<IF rel = "dev" THEN (p[1] + 1) % NumDevs ELSE p[1],
      IF rel = "sm" THEN (p[2] + 1) % NumSms ELSE p[2],
      IF rel = "warp" THEN (p[3] + 1) % NumWarps ELSE p[3],
      IF rel = "lane" THEN (p[4] + 1) % NumLanes ELSE p[4]>>

Snapshots ==
    {Sparse(p, Other(p, r), d, l) :
        p \in AllLanes, r \in Relations, d \in Defects, l \in Layouts}
    \cup {Dense(l) : l \in Layouts}

\* the filters: all wildcards, or one concrete field
Filters ==
    {WildCoords,
     [WildCoords EXCEPT !.ln = 1],
     [WildCoords EXCEPT !.kernelId = 1]}

(***************************************************************************)
(* What the enumeration is to find                                         *)
(***************************************************************************)
\* the lane agrees with every concrete field of the filter
FilterMatches(d, s, w, l) ==
    /\ cuda_coord_equals(filter.dev, d)
    /\ cuda_coord_equals(filter.sm, s)
    /\ cuda_coord_equals(filter.wp, w)
    /\ cuda_coord_equals(filter.ln, l)
    /\ cuda_coord_equals(filter.kernelId, kernelIdOf(d, s, w))
    /\ cuda_coord_equals(filter.gridId, gridIdOf(d, s, w))
    /\ cuda_coord_equals_dim(filter.blockIdx, blockIdxOf(d, s, w))
    /\ cuda_coord_equals_dim(filter.threadIdx, threadIdxOf(d, s, w, l))

\* the lane meets the predicate bits of the mask other than single
PredicatesHold(d, s, w, l) ==
    LET allValid == sm_valid(d, s) /\ warp_valid(d, s, w) /\ lane_valid(d, s, w, l)
    IN  /\ valid => allValid
        /\ logical_type => validWarp(d, s, w)
        /\ active => lane_active(d, s, w, l)
        /\ (atException \/ atAnyException) => sm_has_exception(d, s)
        /\ atException => (allValid /\ lane_active(d, s, w, l)
                            /\ lane_get_exception(d, s, w, l))
        /\ atBreakpoint => (allValid /\ lane_active(d, s, w, l)
                             /\ lane_at_breakpoint(d, s, w, l))
        /\ atTrap => (warp_broken(d, s, w) /\ allValid /\ lane_active(d, s, w, l))
        /\ atClock => /\ ~(warp_timestamp_valid(d, s, w)
                           /\ warp_timestamp(d, s, w) < cuda_clock)
                      /\ ~(lane_timestamp_valid(d, s, w, l)
                           /\ lane_timestamp(d, s, w, l) < cuda_clock)

\* the lanes of the provider's topology
GpuLanes ==
    UNION {{d} \X (0..(device_get_num_sms(d) - 1))
               \X (0..(device_get_num_warps(d) - 1))
               \X (0..(device_get_num_lanes(d) - 1)) :
           d \in 0..(get_num_devices - 1)}

Matches == {x \in GpuLanes : /\ FilterMatches(x[1], x[2], x[3], x[4])
                             /\ PredicatesHold(x[1], x[2], x[3], x[4])}

Members == {m_coord_set[i] : i \in 1..Len(m_coord_set)}

(***************************************************************************)
(* C7: the single bit                                                      *)
(***************************************************************************)
SingleMasks ==
    {{"select_sngl"}, {"select_sngl", "select_valid"},
     {"select_sngl", "select_valid", "select_active"}}

InitSingle ==
    /\ EmptyMap
    /\ NoHost
    /\ NoLife
    /\ \E g \in Snapshots, f \in Filters, t \in SetTypes, m \in SingleMasks,
          o \in CompareTypes :
          InitCtor(g, f, t, m, o, SequentialCompare)

SpecSingle == InitSingle /\ [][NextCoordSet]_vars

\* C7: a set built with the single bit has one member when a lane satisfies
\* the filter and the other predicate bits, none otherwise, and never more
\* than one.
C7_SingleSize ==
    /\ Len(m_coord_set) <= 1
    /\ Done => Len(m_coord_set) = (IF Matches # {} THEN 1 ELSE 0)


(***************************************************************************)
(* C8: sms granularity                                                     *)
(***************************************************************************)
PlainMasks == SUBSET {"select_valid", "select_active"}

InitSms ==
    /\ EmptyMap
    /\ NoHost
    /\ NoLife
    /\ \E g \in Snapshots, f \in Filters, m \in PlainMasks, o \in CompareTypes :
          InitCtor(g, f, "sms", m, o, SequentialCompare)

SpecSms == InitSms /\ [][NextCoordSet]_vars

\* C8: at sms granularity (no single bit) the set holds exactly one member
\* for each (device, sm) pair with a matching lane, and no two members that
\* differ only in warp or lane.
C8_OneMemberPerSm ==
    Done =>
        /\ \A x \in Matches :
              Cardinality({m \in Members : m.dev = x[1] /\ m.sm = x[2]}) = 1
        /\ \A m \in Members : \E x \in Matches : m.dev = x[1] /\ m.sm = x[2]
        /\ \A m1, m2 \in Members :
              (m1.dev = m2.dev /\ m1.sm = m2.sm) => m1 = m2

(***************************************************************************)
(* C9: wildcard filter, threads granularity, mask = valid                  *)
(***************************************************************************)
ClashSnapshots ==
    {Sparse(p, Other(p, r), "none", "clash") :
        p \in AllLanes, r \in {"lane", "warp", "sm", "dev"}}
    \cup {Dense("clash")}

InitWild ==
    /\ EmptyMap
    /\ NoHost
    /\ NoLife
    /\ \E g \in Snapshots \cup ClashSnapshots, o \in CompareTypes :
          InitCtor(g, WildCoords, "threads", {"select_valid"}, o,
                   SequentialCompare)

SpecWild == InitWild /\ [][NextCoordSet]_vars

\* the lanes whose SM, warp and lane are all valid
ValidLanes ==
    {x \in GpuLanes : /\ sm_valid(x[1], x[2])
                      /\ warp_valid(x[1], x[2], x[3])
                      /\ lane_valid(x[1], x[2], x[3], x[4])}

\* distinct valid lanes have distinct logical coordinates
ProviderLogical(x) ==
    <<kernelIdOf(x[1], x[2], x[3]), gridIdOf(x[1], x[2], x[3])>>
      \o clusterIdxOf(x[1], x[2], x[3]) \o blockIdxOf(x[1], x[2], x[3])
      \o threadIdxOf(x[1], x[2], x[3], x[4])

DistinctLogical ==
    \A x, y \in ValidLanes : x # y => ProviderLogical(x) # ProviderLogical(y)

\* C9: with a wildcard filter, threads granularity and mask = valid, and
\* distinct logical coordinates for distinct valid lanes, the finished set
\* holds exactly the valid lanes, one member per lane.
C9_WildcardComplete ==
    (Done /\ DistinctLogical) =>
        /\ {Physical(m) : m \in Members} = ValidLanes
        /\ Len(m_coord_set) = Cardinality(ValidLanes)

\* C9 witness: a finished set in logical order that holds the one valid
\* lane of a snapshot in which another lane is valid inside an invalid warp
\* or SM.
C9_Witness ==
    /\ Done
    /\ DistinctLogical
    /\ order = "logical"
    /\ Len(m_coord_set) = 1
    /\ gpu.lane_valid # ValidLanes

(***************************************************************************)
(* C10: one device, 2 SMs, 4 warps per SM, 32 lanes per warp; only SM 1,   *)
(* its warp 2 and the lane 5 of that warp are valid and active             *)
(***************************************************************************)
ScenarioGpu(k, grid, block, tidx) ==
    [NoGpu EXCEPT
       !.devs = <<[sms |-> 2, warps |-> 4, lanes |-> 32]>>,
       !.sm_valid = {<<0, 1>>},
       !.warp_valid = {<<0, 1, 2>>},
       !.lane_valid = {<<0, 1, 2, 5>>},
       !.lane_active = {<<0, 1, 2, 5>>},
       !.warp_info = [x \in {<<0, 1, 2>>} |->
                        [kernel |-> k, grid_id |-> grid, block_idx |-> block,
                         cluster_idx |-> Dim3(1, 0, 0)]],
       !.lane_tidx = [x \in {<<0, 1, 2, 5>>} |-> tidx]]

\* the kernels of the scenario: none, or a kernel with or without clusters
ScenarioKernels ==
    {NoKernel, Kernel(1, Dim3(0, 0, 0)), Kernel(2, Dim3(2, 1, 1))}

InitScenario ==
    /\ EmptyMap
    /\ NoHost
    /\ NoLife
    /\ \E k \in ScenarioKernels, grid \in 1..2,
          block \in {Dim3(0, 0, 0), Dim3(1, 0, 0)},
          tidx \in {Dim3(5, 0, 0), Dim3(0, 1, 0)}, o \in CompareTypes :
          InitCtor(ScenarioGpu(k, grid, block, tidx), WildCoords, "threads",
                   {"select_valid", "select_active"}, o, SequentialCompare)

SpecScenario == InitScenario /\ [][NextCoordSet]_vars

\* a kernel is bound to the warp of the scenario
ScenarioBound == ~warp_get_kernel(0, 1, 2).null

\* the construction stopped at a failed assertion
AssertionFailed == pc \in {"assert_kernel", "assert_compare"}

\* C10 as stated: with no kernel bound to the warp, the construction raises
\* no assertion failure and ends with the single member (0, 1, 2, 5) whose
\* logical fields are wildcards.
C10_Original ==
    ~ScenarioBound =>
        /\ ~AssertionFailed
        /\ Done => m_coord_set =
                     <<Coords(0, 1, 2, 5, CUDA_WILDCARD, CUDA_WILDCARD,
                              CUDA_WILDCARD_DIM, CUDA_WILDCARD_DIM,
                              CUDA_WILDCARD_DIM)>>

\* C10 amended: with a kernel bound to the warp the construction raises no
\* assertion failure and ends with the single member (0, 1, 2, 5) carrying
\* the kernel id, grid id, block index and thread index the provider
\* reports (the cluster index when the kernel has clusters, ignore
\* otherwise); with no kernel bound it never finishes and emits nothing.
C10_Scenario ==
    /\ ScenarioBound =>
          /\ ~AssertionFailed
          /\ Done =>
                LET k == warp_get_kernel(0, 1, 2)
                    cd == k.cluster_dim
                IN  m_coord_set =
                      <<Coords(0, 1, 2, 5, k.id, warp_get_grid_id(0, 1, 2),
                               IF cd[1] # 0 /\ cd[2] # 0 /\ cd[3] # 0
                               THEN warp_get_cluster_idx(0, 1, 2)
                               ELSE CUDA_IGNORE_DIM,
                               warp_get_block_idx(0, 1, 2),
                               lane_get_thread_idx(0, 1, 2, 5))>>
    /\ ~ScenarioBound => (~Done /\ m_coord_set = <<>>)

\* C10 witness: the construction over the scenario with a bound kernel has
\* finished with one member.
C10_Witness ==
    /\ ScenarioBound
    /\ Done
    /\ Len(m_coord_set) = 1
    /\ Physical(m_coord_set[1]) = <<0, 1, 2, 5>>

(***************************************************************************)
(* The comparator on its own: construction, resetOrigin and operator()     *)
(***************************************************************************)
\* cuda_coord_compare (const cuda_coords &origin)
OriginCompare(origin) == [seq |-> FALSE, origin |-> origin]

\* a resetOrigin that flips the mode
resetOriginToggle(cmp, origin) == [seq |-> ~cmp.seq, origin |-> origin]

\* cuda_coord_compare::resetOrigin
resetOrigin(cmp, origin) == [seq |-> FALSE, origin |-> origin]

\* the largest value of the most significant field of an operand
MaxCoord == 4

\* an operand: a and b are the two most significant fields of both parts,
\* c the least significant one; the cluster index follows from a and c
MkCoord(a, b, c) ==
    Coords(a, b, 0, c, a, b, Dim3((a + c) % 2, 0, 0), Dim3(0, 0, 0),
           Dim3(c, 0, 0))

FullCoords == {MkCoord(a, b, c) : a \in 0..MaxCoord, b \in 0..1, c \in 0..1}

\* the operands: the fully defined ones and one that is not
Operands == FullCoords \cup {WildCoords}

\* the origins: concrete in every field, or wildcard in some
Origins ==
    {MkCoord(0, 0, 0), MkCoord(2, 1, 1), WildCoords,
     [MkCoord(2, 0, 0) EXCEPT !.sm = CUDA_WILDCARD, !.gridId = CUDA_WILDCARD],
     [WildCoords EXCEPT !.ln = 1, !.threadIdx = Dim3(1, 0, 0)]}

CmpOp(op, lhs, rhs, res) == [op |-> op, lhs |-> lhs, rhs |-> rhs, res |-> res]

\* the set object is not involved: its variables stay as constructed
InitCompare ==
    /\ EmptyMap
    /\ NoHost
    /\ earlier = NoEarlier /\ observed = NoObserved /\ objs = NoObjs
    /\ \E o \in CompareTypes :
          \/ /\ InitCtor(NoGpu, WildCoords, "threads", {}, o, SequentialCompare)
             /\ cmp_op = CmpOp("ctor", WildCoords, WildCoords, FALSE)
          \/ \E origin \in Origins :
                /\ InitCtor(NoGpu, WildCoords, "threads", {}, o,
                            OriginCompare(origin))
                /\ cmp_op = CmpOp("ctor_origin", WildCoords, WildCoords, FALSE)

ResetOrigin(origin) ==
    /\ m_compare' = resetOrigin(m_compare, origin)
    /\ cmp_op' = CmpOp("resetOrigin", WildCoords, WildCoords, FALSE)
    /\ UNCHANGED <<hostVars, rmVars, inputVars, m_coord_set, foundKernels, foundBlocks,
                   dev, sm, wp, ln, smCnt, wpCnt, pc, earlier, observed, objs>>

\* operator() (lhs, rhs)
Call(lhs, rhs) ==
    /\ cmp_op' = IF CompareAsserts(m_compare, order, lhs, rhs)
                 THEN CmpOp("assert", lhs, rhs, FALSE)
                 ELSE CmpOp("call", lhs, rhs, Compare(m_compare, order, lhs, rhs))
    /\ UNCHANGED <<hostVars, rmVars, inputVars, ctorVars, earlier, observed, objs>>

CmpReset == \E origin \in Origins : ResetOrigin(origin)

CmpCall == \E lhs, rhs \in Operands : Call(lhs, rhs)

NextCompare == CmpReset \/ CmpCall

SpecCompare == InitCompare /\ [][NextCompare]_vars

\* the distance of v from the origin field o; a wildcard origin field ties
FieldDistance(o, v) ==
    IF o = CUDA_WILDCARD THEN 0 ELSE IF v >= o THEN v - o ELSE o - v

DistanceKey(o, t) == [i \in 1..Len(t) |-> FieldDistance(o[i], t[i])]

\* the fields whose distances are compared, most significant first
WalkedFields(c) ==
    IF order = "physical" THEN Physical(c) ELSE LogicalDistanceFields(c)

\* the raw values the sequential order compares
RawFields(c) == IF order = "physical" THEN Physical(c) ELSE Logical(c)

\* the last call compared two fully defined operands in origin mode
OriginCall == cmp_op.op = "call" /\ ~m_compare.seq

\* C11: in origin mode the comparator orders two fully defined coordinates
\* by their per-field distances from the origin, most significant field
\* first: the first field with different distances decides, the smaller
\* distance first; when every field ties, the sequential less-than of the
\* raw values decides.
C11_OriginOrdering ==
    OriginCall =>
        LET o == WalkedFields(m_compare.origin)
            l == WalkedFields(cmp_op.lhs)
            r == WalkedFields(cmp_op.rhs)
        IN  cmp_op.res = LexLess(DistanceKey(o, l) \o RawFields(cmp_op.lhs),
                                 DistanceKey(o, r) \o RawFields(cmp_op.rhs))

\* C11 witness: a physical comparison in which the devices are different
\* but equally far from the origin, the SM distances decide, and the
\* outcome is the opposite of the sequential order.
C11_Witness ==
    /\ OriginCall
    /\ order = "physical"
    /\ m_compare.origin.dev # CUDA_WILDCARD
    /\ cmp_op.lhs.dev # cmp_op.rhs.dev
    /\ Distance(m_compare.origin.dev, cmp_op.lhs.dev)
         = Distance(m_compare.origin.dev, cmp_op.rhs.dev)
    /\ Distance(m_compare.origin.sm, cmp_op.lhs.sm)
         < Distance(m_compare.origin.sm, cmp_op.rhs.sm)
    /\ cmp_op.res
    /\ LexLess(Physical(cmp_op.rhs), Physical(cmp_op.lhs))

\* the comparator in its current mode, on fully defined operands
Less(a, b) == Compare(m_compare, order, a, b)

Incomparable(a, b) == ~Less(a, b) /\ ~Less(b, a)

\* the last call compared two fully defined operands, in either mode
FullCall ==
    /\ cmp_op.op = "call"
    /\ cmp_op.lhs \in FullCoords
    /\ cmp_op.rhs \in FullCoords

\* C12: in both modes and for both compare types the comparator is a
\* strict weak ordering of the fully defined coordinates: irreflexive,
\* asymmetric, transitive, with a transitive incomparability.
C12_StrictWeakOrdering ==
    FullCall =>
        LET a == cmp_op.lhs
            b == cmp_op.rhs
        IN  /\ cmp_op.res = Less(a, b)
            /\ ~Less(a, a)
            /\ Less(a, b) => ~Less(b, a)
            /\ \A c \in FullCoords :
                  /\ (Less(a, b) /\ Less(b, c)) => Less(a, c)
                  /\ (Incomparable(a, b) /\ Incomparable(b, c))
                       => Incomparable(a, c)

\* C12 witness: a logical comparison in origin mode that answered "less"
\* for operands a, b with a third operand after b.
C12_Witness ==
    /\ FullCall
    /\ ~m_compare.seq
    /\ order = "logical"
    /\ cmp_op.res
    /\ \E c \in FullCoords : Less(cmp_op.rhs, c)

\* C15: a default-constructed comparator is in sequential mode, and no
\* operation takes a comparator in origin mode back to sequential mode.
C15_OriginModeOneWay ==
    /\ [](cmp_op.op = "ctor" => m_compare.seq)
    /\ [][~m_compare.seq => ~m_compare'.seq]_vars

\* C15 witness: resetOrigin was the last operation and the comparator is
\* in origin mode, with the origin of the call.
C15_Witness ==
    /\ cmp_op.op = "resetOrigin"
    /\ ~m_compare.seq
    /\ m_compare.origin = MkCoord(2, 1, 1)

(***************************************************************************)
(* Constructions at every granularity, without the single bit              *)
(***************************************************************************)
ReverseSnapshots ==
    {Sparse(p, Other(p, r), "none", "reverse") :
        p \in AllLanes, r \in {"lane", "warp", "sm", "dev"}}
    \cup {Dense("reverse")}

BuildFilters == {WildCoords, [WildCoords EXCEPT !.ln = 1]}

InitBuild ==
    /\ EmptyMap
    /\ NoHost
    /\ NoLife
    /\ \E g \in Snapshots \cup ClashSnapshots \cup ReverseSnapshots,
          f \in BuildFilters, t \in SetTypes, o \in CompareTypes :
          InitCtor(g, f, t, {"select_valid"}, o, SequentialCompare)

SpecBuild == InitBuild /\ [][NextCoordSet]_vars

\* C13: a set built without an origin holds its members in strictly
\* ascending lexicographic order of the tuple of its compare mode
\* (physical: device, sm, warp, lane; logical: kernel id, grid id, cluster,
\* block, thread), so no two consecutive members are equal under it.
C13_SequentialIteration ==
    m_compare.seq =>
        \A i \in 1..(Len(m_coord_set) - 1) :
            LexLess(RawFields(m_coord_set[i]), RawFields(m_coord_set[i + 1]))

\* C13 witness: a finished set in logical order whose iteration order is
\* not the order in which its members were found.
C13_Witness ==
    /\ Done
    /\ m_compare.seq
    /\ order = "logical"
    /\ Len(m_coord_set) >= 2
    /\ \E i \in 1..(Len(m_coord_set) - 1) :
          LexLess(Physical(m_coord_set[i + 1]), Physical(m_coord_set[i]))

(***************************************************************************)
(* The life of a set after its construction: size () and iteration, a      *)
(* second construction with the same arguments, changes of the device      *)
(* state, and copies of the set                                            *)
(***************************************************************************)
\* the kernels seen by the construction before
StaleKernels == foundKernels

\* std::unordered_set<uint64_t> foundKernels: a local of the constructor
FreshKernels == {}

\* size () asking the device state again
sizeLive == Cardinality(Matches)

\* cuda_coord_set::size
size == Len(m_coord_set)

\* the members from begin () to end ()
iterate == m_coord_set

\* the number of further set objects: copies and default-constructed sets
MaxCopies == 2

\* the set object itself is object 0; its comparator lambda captures this
ThisOnly == (0 :> [alive |-> TRUE, cmp_this |-> 0])

ObjCompare(i) == IF i = 0 THEN m_compare ELSE objs[i].m_compare

ObjSet(i) == IF i = 0 THEN m_coord_set ELSE objs[i].m_coord_set

Alive == {i \in DOMAIN objs : objs[i].alive}

\* the copy of object src: the members, the comparator state and the
\* std::function of the std::set, which still calls the m_compare of the
\* object whose constructor created it
CopyOf(src) ==
    [alive |-> TRUE, cmp_this |-> objs[src].cmp_this,
     m_compare |-> ObjCompare(src), m_coord_set |-> ObjSet(src)]

LifeSnapshots ==
    {Dense("one"), Dense("reverse"),
     Sparse(<<0, 0, 0, 0>>, <<0, 1, 0, 0>>, "none", "one"),
     Sparse(<<0, 0, 0, 0>>, <<0, 0, 1, 1>>, "lane", "one")}

\* the origin argument of the constructor, when there is one
LifeOrigin ==
    Coords(0, 1, 0, 1, 2, 1, CUDA_IGNORE_DIM, Dim3(1, 0, 0), Dim3(1, 0, 0))

InitLife ==
    /\ EmptyMap
    /\ NoHost
    /\ cmp_op = NoCmpOp /\ observed = NoObserved
    /\ objs = ThisOnly
    /\ \E g \in LifeSnapshots, t \in SetTypes, o \in CompareTypes,
          cmp \in {SequentialCompare, OriginCompare(LifeOrigin)} :
          /\ InitCtor(g, WildCoords, t, {"select_valid"}, o, cmp)
          /\ earlier = [NoEarlier EXCEPT !.over = g]

\* size () on the finished set
Size ==
    /\ pc = "done" /\ objs[0].alive
    /\ observed' = [op |-> "size", size |-> size, members |-> <<>>]
    /\ UNCHANGED <<hostVars, rmVars, inputVars, ctorVars, cmp_op, earlier, objs>>

\* for (it = begin (); it != end (); ++it) on the finished set
Iterate ==
    /\ pc = "done" /\ objs[0].alive
    /\ observed' = [op |-> "iterate", size |-> Len(iterate), members |-> iterate]
    /\ UNCHANGED <<hostVars, rmVars, inputVars, ctorVars, cmp_op, earlier, objs>>

\* the device state changes while no construction is running
ProviderChange ==
    /\ pc = "done"
    /\ \E g \in LifeSnapshots : g # gpu /\ gpu' = g
    /\ UNCHANGED <<hostVars, rmVars, filter, type, mask, order, ctorVars, lifeVars>>

\* a second set is constructed with the arguments of the first
Rebuild ==
    /\ pc = "done" /\ ~earlier.built
    /\ earlier' = [built |-> TRUE, gpu |-> earlier.over,
                    members |-> m_coord_set, over |-> gpu]
    /\ m_coord_set' = <<>>
    /\ foundKernels' = FreshKernels
    /\ foundBlocks' = [k \in {} |-> {}]
    /\ dev' = 0 /\ sm' = 0 /\ wp' = 0 /\ ln' = 0
    /\ smCnt' = 0 /\ wpCnt' = 0
    /\ pc' = "dev_loop"
    /\ objs' = ThisOnly
    /\ UNCHANGED <<hostVars, rmVars, inputVars, m_compare, cmp_op, observed>>

\* cuda_coord_set (const cuda_coord_set &), cuda_coord_set (cuda_coord_set &&)
Copy(src) ==
    /\ pc = "done"
    /\ src \in Alive
    /\ Cardinality(DOMAIN objs) <= MaxCopies
    /\ objs' = objs @@ (Cardinality(DOMAIN objs) :> CopyOf(src))
    /\ UNCHANGED <<hostVars, rmVars, inputVars, ctorVars, cmp_op, earlier, observed>>

\* cuda_coord_set (): an empty set whose comparator lambda captures its
\* own this
DefaultConstruct ==
    /\ pc = "done"
    /\ Cardinality(DOMAIN objs) <= MaxCopies
    /\ objs' = objs @@ (Cardinality(DOMAIN objs) :>
                  [alive |-> TRUE, cmp_this |-> Cardinality(DOMAIN objs),
                   m_compare |-> SequentialCompare, m_coord_set |-> <<>>])
    /\ UNCHANGED <<hostVars, rmVars, inputVars, ctorVars, cmp_op, earlier, observed>>

\* operator= on a further object
Assign(dst, src) ==
    /\ pc = "done"
    /\ src \in Alive /\ dst \in Alive \ {0, src}
    /\ objs' = [objs EXCEPT ![dst] = CopyOf(src)]
    /\ UNCHANGED <<hostVars, rmVars, inputVars, ctorVars, cmp_op, earlier, observed>>

\* ~cuda_coord_set ()
Destroy(i) ==
    /\ pc = "done"
    /\ i \in Alive
    /\ objs' = [objs EXCEPT ![i].alive = FALSE]
    /\ UNCHANGED <<hostVars, rmVars, inputVars, ctorVars, cmp_op, earlier, observed>>

LifeCopy == \E src \in 0..MaxCopies : Copy(src)

LifeAssign == \E dst, src \in 0..MaxCopies : Assign(dst, src)

LifeDestroy == \E i \in 0..MaxCopies : Destroy(i)

NextLife ==
    \/ NextCoordSet
    \/ Size
    \/ Iterate
    \/ ProviderChange
    \/ Rebuild

SpecLife == InitLife /\ [][NextLife]_vars

NextCopies ==
    \/ NextCoordSet
    \/ LifeCopy
    \/ DefaultConstruct
    \/ LifeAssign
    \/ LifeDestroy

SpecCopies == InitLife /\ [][NextCopies]_vars

C17_ImmutableSnapshot ==
    [][/\ (pc = "done" /\ pc' = "done") => m_coord_set' = m_coord_set
       /\ gpu' # gpu => observed' = observed
       /\ observed' # observed =>
             /\ observed'.size = Len(m_coord_set)
             /\ observed'.op = "iterate" => observed'.members = m_coord_set]_vars

\* C17 witness: size () was called after the device state had changed, on
\* a threads set holding a lane that is no longer valid.
C17_Witness ==
    /\ Done
    /\ observed.op = "size"
    /\ observed.size >= 1
    /\ earlier.over # gpu
    /\ type = "threads"
    /\ \E m \in Members : ~lane_valid(m.dev, m.sm, m.wp, m.ln)

\* C16: every live set object compares with its own comparator state: the
\* comparator of its std::set calls the m_compare of the object itself,
\* never that of the object it was copied or assigned from.
C16_CopyOwnsComparator ==
    \A i \in Alive : objs[i].cmp_this = i

\* the dedup key of the warp of a lane: the kernel id, or the kernel id and
\* the block index
DedupKey(x) ==
    IF type = "kernels" THEN <<kernelIdOf(x[1], x[2], x[3])>>
    ELSE <<kernelIdOf(x[1], x[2], x[3]), blockIdxOf(x[1], x[2], x[3])>>

MemberKey(m) ==
    IF type = "kernels" THEN <<m.kernelId>> ELSE <<m.kernelId, m.blockIdx>>

\* C18: at kernels and blocks granularity the finished set holds exactly
\* one member for every kernel (kernel and block) that has a lane matching
\* the filter and the predicates, also when a warp of that kernel traversed
\* before has no matching lane.
C18_DedupOnEmit ==
    (Done /\ type \in {"kernels", "blocks"}) =>
        \A x \in Matches :
            Cardinality({i \in 1..Len(m_coord_set) :
                           MemberKey(m_coord_set[i]) = DedupKey(x)}) = 1

\* the fields that identify a match at the granularity of the set
GranKey(d, s, w, l) ==
    CASE type = "devices" -> <<d>>
      [] type = "sms" -> <<d, s>>
      [] type = "warps" -> <<d, s, w>>
      [] type = "kernels" -> <<kernelIdOf(d, s, w)>>
      [] type = "blocks" -> <<kernelIdOf(d, s, w), blockIdxOf(d, s, w)>>
      [] OTHER -> <<d, s, w, l>>

MemberGranKey(m) ==
    CASE type = "devices" -> <<m.dev>>
      [] type = "sms" -> <<m.dev, m.sm>>
      [] type = "warps" -> <<m.dev, m.sm, m.wp>>
      [] type = "kernels" -> <<m.kernelId>>
      [] type = "blocks" -> <<m.kernelId, m.blockIdx>>
      [] OTHER -> <<m.dev, m.sm, m.wp, m.ln>>

MatchKeys == {GranKey(x[1], x[2], x[3], x[4]) : x \in Matches}

\* C19: for every granularity and both compare modes the finished set has
\* one member for each combination of granularity-relevant fields that has
\* a match, and no other member: matches collapse exactly when they agree
\* on those fields (threads: given distinct logical coordinates for
\* distinct valid lanes).
C19_MembershipByGranularity ==
    (Done /\ (type = "threads" => DistinctLogical)) =>
        /\ {MemberGranKey(m) : m \in Members} = MatchKeys
        /\ Len(m_coord_set) = Cardinality(MatchKeys)

\* the field holds a value, not the wildcard
Concrete(v) == v # CUDA_WILDCARD

ConcreteDim(v) == v # CUDA_WILDCARD_DIM

\* C20 as stated: every member of an sms set has wildcard warp, lane,
\* kernel id, grid id, cluster index, block index and thread index, and
\* every member of a blocks or warps set has a wildcard thread index.
C20_Original ==
    \A m \in Members :
        /\ type = "sms" =>
              /\ m.wp = CUDA_WILDCARD /\ m.ln = CUDA_WILDCARD
              /\ m.kernelId = CUDA_WILDCARD /\ m.gridId = CUDA_WILDCARD
              /\ m.clusterIdx = CUDA_WILDCARD_DIM
              /\ m.blockIdx = CUDA_WILDCARD_DIM
              /\ m.threadIdx = CUDA_WILDCARD_DIM
        /\ type \in {"blocks", "warps"} => m.threadIdx = CUDA_WILDCARD_DIM

\* C20 amended: every member has a value in exactly these fields and the
\* wildcard in every other one: the device always; the sm unless the set
\* is of devices or kernels; the warp for warps, lanes and threads; the
\* lane for lanes and threads; the kernel id and the grid id unless the
\* set is of devices; the cluster, block and thread index for warps,
\* lanes, blocks and threads.
C20_Projection ==
    \A m \in Members :
        /\ Concrete(m.dev)
        /\ Concrete(m.sm) <=> type \notin {"devices", "kernels"}
        /\ Concrete(m.wp) <=> type \in {"warps", "lanes", "threads"}
        /\ Concrete(m.ln) <=> type \in {"lanes", "threads"}
        /\ Concrete(m.kernelId) <=> type # "devices"
        /\ Concrete(m.gridId) <=> type # "devices"
        /\ ConcreteDim(m.clusterIdx)
             <=> type \in {"warps", "lanes", "blocks", "threads"}
        /\ ConcreteDim(m.blockIdx)
             <=> type \in {"warps", "lanes", "blocks", "threads"}
        /\ ConcreteDim(m.threadIdx)
             <=> type \in {"warps", "lanes", "blocks", "threads"}

\* C20 witness: a finished sms set with a member that carries the kernel
\* id and the grid id of its warp.
C20_Witness ==
    /\ Done
    /\ type = "sms"
    /\ \E m \in Members :
          /\ m.kernelId = kernelIdOf(m.dev, m.sm, 0)
          /\ m.gridId = gridIdOf(m.dev, m.sm, 0)
          /\ m.kernelId # CUDA_WILDCARD
          /\ m.wp = CUDA_WILDCARD

(***************************************************************************)
(* The traversal without the per-unit breaks                               *)
(***************************************************************************)
\* the lane passes every `continue' of the four loops but those of the
\* foundKernels and foundBlocks bookkeeping
Visited(d, s, w, l) ==
    /\ ~DevSkip(d)
    /\ ~SmSkip(d, s)
    /\ ~WarpSkipEarly(d, s, w)
    /\ ~WarpFilterSkip(d, s, w)
    /\ ~LaneSkip(d, s, w, l)

\* the lanes of S in the ascending order of the four nested loops
RECURSIVE TraversalOrder(_)
TraversalOrder(S) ==
    IF S = {} THEN <<>>
    ELSE LET x == CHOOSE y \in S : \A z \in S \ {y} : LexLess(y, z)
         IN  <<x>> \o TraversalOrder(S \ {x})

\* every lane of the sequence emplaced, one after the other
RECURSIVE EmplaceAll(_, _)
EmplaceAll(set, lanes) ==
    IF lanes = <<>> THEN set
    ELSE LET x == lanes[1]
         IN  EmplaceAll(Emplace(set, m_compare, order,
                                OutputCoord(x[1], x[2], x[3], x[4])),
                        Tail(lanes))

\* the set of the traversal that never breaks out of a loop and leaves the
\* deduplication to the set
WithoutBreaks ==
    EmplaceAll(<<>>, TraversalOrder({x \in GpuLanes :
                                       Visited(x[1], x[2], x[3], x[4])}))

\* C21: for the granularities devices, sms, warps, kernels and blocks, a
\* finished set built without the single bit has the members, in the order,
\* of the traversal that visits every lane and lets only the uniqueness of
\* the set deduplicate.
C21_EarlyExitPreservesResult ==
    (Done /\ ~single /\ OneEntryPerWarp) => m_coord_set = WithoutBreaks

(***************************************************************************)
(* Constructions with the breakpoint, exception and trap bits              *)
(***************************************************************************)
\* the units with index 0 at their own level, and all units
HalfSms == {x \in AllSms : x[2] = 0}
HalfWarps == {x \in AllWarps : x[3] = 0}
HalfLanes == {x \in AllLanes : x[4] = 0}

\* which units report a breakpoint, an exception or a trap: all of them,
\* half of them, or all at one level and half at the other
FlagPatterns == {"all", "half", "lanes", "units"}

Flagged(g, pat) ==
    [g EXCEPT
       !.lane_bkpt = IF pat \in {"all", "lanes"} THEN AllLanes ELSE HalfLanes,
       !.lane_excpt = IF pat \in {"all", "lanes"} THEN AllLanes ELSE HalfLanes,
       !.sm_excpt = IF pat \in {"all", "units"} THEN AllSms ELSE HalfSms,
       !.warp_broken = IF pat \in {"all", "units"} THEN AllWarps ELSE HalfWarps]

FlagSnapshots ==
    {Flagged(Sparse(p, Other(p, r), d, "one"), pat) :
        p \in {<<0, 0, 0, 0>>, <<0, NumSms - 1, NumWarps - 1, NumLanes - 1>>},
        r \in Relations, d \in Defects, pat \in FlagPatterns}
    \cup {Flagged(Dense("one"), pat) : pat \in FlagPatterns}

FlagMasks ==
    {{"select_bkpt"}, {"select_excpt"}, {"select_trap"},
     {"select_bkpt", "select_excpt", "select_trap"}}

InitFlags ==
    /\ EmptyMap
    /\ NoHost
    /\ NoLife
    /\ \E g \in FlagSnapshots, t \in {"lanes", "threads"}, m \in FlagMasks,
          o \in CompareTypes :
          InitCtor(g, WildCoords, t, m, o, SequentialCompare)

SpecFlags == InitFlags /\ [][NextCoordSet]_vars

\* C22: at lanes or threads granularity with at-breakpoint, at-exception or
\* at-trap in the mask, every member is a lane whose SM, warp and lane are
\* valid and which is active; with at-breakpoint a breakpoint is set at its
\* program counter, with at-exception the lane and its SM report an
\* exception, with at-trap its warp is halted on a trap.
C22_LanePredicateSoundness ==
    (type \in {"lanes", "threads"} /\ (atBreakpoint \/ atException \/ atTrap)) =>
        \A i \in 1..Len(m_coord_set) :
            LET m == m_coord_set[i]
            IN  /\ sm_valid(m.dev, m.sm)
                /\ warp_valid(m.dev, m.sm, m.wp)
                /\ lane_valid(m.dev, m.sm, m.wp, m.ln)
                /\ lane_active(m.dev, m.sm, m.wp, m.ln)
                /\ atBreakpoint => lane_at_breakpoint(m.dev, m.sm, m.wp, m.ln)
                /\ atException => /\ lane_get_exception(m.dev, m.sm, m.wp, m.ln)
                                  /\ sm_has_exception(m.dev, m.sm)
                /\ atTrap => warp_broken(m.dev, m.sm, m.wp)

\* C22 witness: a finished set built with at-breakpoint alone that has a
\* member, over a snapshot in which a lane with a breakpoint at its program
\* counter is inactive and valid and is no member.
C22_Witness ==
    /\ Done
    /\ mask = {"select_bkpt"}
    /\ type = "lanes"
    /\ Len(m_coord_set) >= 1
    /\ \E x \in GpuLanes :
          /\ lane_at_breakpoint(x[1], x[2], x[3], x[4])
          /\ lane_valid(x[1], x[2], x[3], x[4])
          /\ validWarp(x[1], x[2], x[3])
          /\ ~lane_active(x[1], x[2], x[3], x[4])
          /\ \A i \in 1..Len(m_coord_set) :
                Physical(m_coord_set[i]) # <<x[1], x[2], x[3], x[4]>>

(***************************************************************************)
(* Constructions over snapshots with invalid warps, with and without the   *)
(* valid bit                                                               *)
(***************************************************************************)
InvalidSnapshots ==
    {Sparse(p, Other(p, r), d, l) :
        p \in {<<0, 0, 0, 0>>, <<0, NumSms - 1, NumWarps - 1, NumLanes - 1>>},
        r \in Relations, d \in Defects, l \in Layouts}
    \cup {Dense(l) : l \in Layouts}

InvalidMasks == {{}, {"select_valid"}, {"select_active"}}

InitInvalid ==
    /\ EmptyMap
    /\ NoHost
    /\ NoLife
    /\ \E g \in InvalidSnapshots, t \in SetTypes, m \in InvalidMasks,
          o \in CompareTypes :
          InitCtor(g, WildCoords, t, m, o, SequentialCompare)

SpecInvalid == InitInvalid /\ [][NextCoordSet]_vars

\* the warps the member m can stem from: those at its concrete physical
\* fields
WarpsOf(m) ==
    {WarpOf(y) : y \in {x \in GpuLanes : /\ x[4] = 0
                                          /\ x[1] = m.dev
                                          /\ cuda_coord_equals(m.sm, x[2])
                                          /\ cuda_coord_equals(m.wp, x[3])}}

\* the member m has the invalid sentinel in every logical field it stores
LogicalInvalid(m) ==
    /\ storeKernel => (m.kernelId = CUDA_INVALID /\ m.gridId = CUDA_INVALID)
    /\ storeBlock => (m.clusterIdx = CUDA_INVALID_DIM
                      /\ m.blockIdx = CUDA_INVALID_DIM)
    /\ storeThread => m.threadIdx = CUDA_INVALID_DIM

\* the set holds a member equivalent to c under its comparator
Holds(c) ==
    \E i \in 1..Len(m_coord_set) :
        /\ ~Compare(m_compare, order, c, m_coord_set[i])
        /\ ~Compare(m_compare, order, m_coord_set[i], c)

\* C23: at a logical granularity every member stems from a valid warp of a
\* valid SM, whether or not valid is in the mask, and carries the kernel id
\* and grid id of that warp's kernel.  At a physical granularity without
\* valid in the mask the lanes of invalid warps are enumerated: every such
\* lane that passes the mask is in a finished lanes set, and a member that
\* stems from an invalid warp has the invalid sentinel, not a value of the
\* provider, in each logical field it stores.
C23_InvalidWarps ==
    /\ logical_type =>
          \A i \in 1..Len(m_coord_set) :
              LET m == m_coord_set[i]
              IN  /\ m.kernelId # CUDA_INVALID
                  /\ m.gridId # CUDA_INVALID
                  /\ \E x \in WarpsOf(m) :
                        /\ validWarp(x[1], x[2], x[3])
                        /\ ~warp_get_kernel(x[1], x[2], x[3]).null
                        /\ m.kernelId = warp_get_kernel(x[1], x[2], x[3]).id
                        /\ m.gridId = warp_get_grid_id(x[1], x[2], x[3])
    /\ (physical_type /\ ~valid) =>
          /\ \A i \in 1..Len(m_coord_set) :
                LET m == m_coord_set[i]
                IN  /\ (\A x \in WarpsOf(m) : ~validWarp(x[1], x[2], x[3]))
                        => LogicalInvalid(m)
                    /\ (storeKernel /\ m.kernelId = CUDA_INVALID)
                        => \E x \in WarpsOf(m) : ~validWarp(x[1], x[2], x[3])
          /\ (Done /\ type = "lanes") =>
                \A x \in GpuLanes :
                    (/\ ~validWarp(x[1], x[2], x[3])
                     /\ PredicatesHold(x[1], x[2], x[3], x[4]))
                    => /\ Holds(OutputCoord(x[1], x[2], x[3], x[4]))
                       /\ LogicalInvalid(OutputCoord(x[1], x[2], x[3], x[4]))

\* C23 witness: a finished lanes set built without valid holds a lane of an
\* invalid warp for which the provider still has a kernel on record, next to
\* a lane of a valid warp.
C23_Witness ==
    /\ Done
    /\ type = "lanes"
    /\ mask = {}
    /\ \E i, j \in 1..Len(m_coord_set) :
          LET m == m_coord_set[i]
              n == m_coord_set[j]
          IN  /\ ~validWarp(m.dev, m.sm, m.wp)
              /\ ~warp_get_kernel(m.dev, m.sm, m.wp).null
              /\ m.kernelId = CUDA_INVALID
              /\ validWarp(n.dev, n.sm, n.wp)
              /\ n.kernelId # CUDA_INVALID

(***************************************************************************)
(* Constructions with the current-clock bit                                *)
(***************************************************************************)
\* the reference clock of the snapshots; a timestamp is older (0), equal
\* to it or newer (2)
RefClock == 1

\* which units carry a timestamp: "fresh" and "newer" stamp every warp and
\* lane at or after the clock, "warps" ("lanes") stamps half of the warps
\* (lanes) before the clock and leaves the lanes (warps) without a valid
\* timestamp, "both" stamps half of the warps and half of the lanes before it
StampPatterns == {"fresh", "newer", "warps", "lanes", "both"}

Stamped(g, pat) ==
    [g EXCEPT
       !.clock = RefClock,
       !.warp_ts =
           IF pat = "lanes" THEN [x \in {} |-> 0]
           ELSE [x \in AllWarps |->
                    IF pat = "fresh" THEN RefClock
                    ELSE IF pat = "newer" THEN RefClock + 1
                    ELSE IF x[3] = 0 THEN RefClock - 1 ELSE RefClock],
       !.lane_ts =
           IF pat = "warps" THEN [x \in {} |-> 0]
           ELSE [x \in AllLanes |->
                    IF pat = "fresh" THEN RefClock
                    ELSE IF pat = "newer" THEN RefClock + 1
                    ELSE IF x[4] = 0 THEN RefClock - 1 ELSE RefClock + 1]]

ClockSnapshots ==
    {Stamped(Sparse(p, Other(p, r), d, "one"), pat) :
        p \in {<<0, 0, 0, 0>>, <<0, NumSms - 1, NumWarps - 1, NumLanes - 1>>},
        r \in Relations, d \in {"none", "warp", "lane"}, pat \in StampPatterns}
    \cup {Stamped(Dense("one"), pat) : pat \in StampPatterns}

ClockMasks ==
    {{"select_current_clock"}, {"select_current_clock", "select_valid"}}

InitClock ==
    /\ EmptyMap
    /\ NoHost
    /\ NoLife
    /\ \E g \in ClockSnapshots, t \in SetTypes, m \in ClockMasks,
          o \in CompareTypes :
          InitCtor(g, WildCoords, t, m, o, SequentialCompare)

SpecClock == InitClock /\ [][NextCoordSet]_vars

\* the unit has a valid timestamp that is older than the reference clock
StaleWarp(d, s, w) ==
    warp_timestamp_valid(d, s, w) /\ warp_timestamp(d, s, w) < cuda_clock

StaleLane(d, s, w, l) ==
    lane_timestamp_valid(d, s, w, l) /\ lane_timestamp(d, s, w, l) < cuda_clock

\* C24: with at-current-clock in the mask, a member is only ever inserted
\* for a lane whose warp and whose own timestamp are not older than the
\* reference clock, and the warp loop and the lane loop step over a unit
\* whose timestamp is older than the reference clock without inserting.
C24_Staleness ==
    [][atClock =>
        /\ (m_coord_set' # m_coord_set) =>
              (~StaleWarp(dev, sm, wp) /\ ~StaleLane(dev, sm, wp, ln))
        /\ (pc = "wp_loop" /\ wp < device_get_num_warps(dev)
              /\ StaleWarp(dev, sm, wp)) =>
              (wp' = wp + 1 /\ pc' = "wp_loop" /\ m_coord_set' = m_coord_set)
        /\ (pc = "ln_loop" /\ ln < device_get_num_lanes(dev)
              /\ StaleLane(dev, sm, wp, ln)) =>
              (ln' = ln + 1 /\ pc' = "ln_loop" /\ m_coord_set' = m_coord_set)
    ]_vars

\* C24 witness: a finished lanes set built with at-current-clock that has a
\* member, over a snapshot in which a valid lane of a valid warp that is not
\* stale itself is stamped before the reference clock and is no member.
C24_Witness ==
    /\ Done
    /\ atClock
    /\ type = "lanes"
    /\ order = "physical"
    /\ Len(m_coord_set) >= 1
    /\ \E x \in GpuLanes :
          /\ validWarp(x[1], x[2], x[3])
          /\ lane_valid(x[1], x[2], x[3], x[4])
          /\ ~StaleWarp(x[1], x[2], x[3])
          /\ StaleLane(x[1], x[2], x[3], x[4])
          /\ \A i \in 1..Len(m_coord_set) :
                Physical(m_coord_set[i]) # <<x[1], x[2], x[3], x[4]>>

(***************************************************************************)
(* Constructions over topologies of every shape                            *)
(***************************************************************************)
\* the devices a provider can report: none, or up to NumDevs devices, each
\* without SMs, with SMs whose warps have no lanes, with one warp of one
\* lane per SM, or with all SMs, warps and lanes
DeviceShapes ==
    {[sms |-> 0, warps |-> NumWarps, lanes |-> NumLanes],
     [sms |-> NumSms, warps |-> NumWarps, lanes |-> 0],
     [sms |-> NumSms, warps |-> 1, lanes |-> 1],
     [sms |-> NumSms, warps |-> NumWarps, lanes |-> NumLanes]}

Shapes == UNION {[1..n -> DeviceShapes] : n \in 0..NumDevs}

ShapeLanes(devs) ==
    UNION {{d} \X (0..(devs[d + 1].sms - 1)) \X (0..(devs[d + 1].warps - 1))
               \X (0..(devs[d + 1].lanes - 1)) :
           d \in 0..(Len(devs) - 1)}

ShapeWarps(devs) ==
    UNION {{d} \X (0..(devs[d + 1].sms - 1)) \X (0..(devs[d + 1].warps - 1)) :
           d \in 0..(Len(devs) - 1)}

\* a snapshot of the topology devs: every unit is valid and active but the
\* lanes with index 0, and the warps with index 0 where an SM has several
Shaped(devs) ==
    [NoGpu EXCEPT
       !.devs = devs,
       !.sm_valid = {SmOf(x) : x \in ShapeWarps(devs)},
       !.warp_valid = {x \in ShapeWarps(devs) :
                          x[3] # 0 \/ devs[x[1] + 1].warps = 1},
       !.lane_valid = {x \in ShapeLanes(devs) : x[4] # 0},
       !.lane_active = ShapeLanes(devs),
       !.warp_info = [x \in ShapeWarps(devs) |-> WarpInfo("one", x)],
       !.lane_tidx = [x \in ShapeLanes(devs) |-> ThreadIdx("one", x)]]

ShapeMasks ==
    {{}, {"select_valid"}, {"select_sngl"}, {"select_sngl", "select_valid"}}

InitShapes ==
    /\ EmptyMap
    /\ NoHost
    /\ NoLife
    /\ \E devs \in Shapes, t \in SetTypes, m \in ShapeMasks :
          InitCtor(Shaped(devs), WildCoords, t, m, "physical",
                   SequentialCompare)

SpecShapes == InitShapes /\ [][NextCoordSet]_vars

\* the constructor body runs without yielding: a step it can take is taken
SpecShapesFair == SpecShapes /\ WF_vars(NextCoordSet)

\* past every index of a loop
PastEnd == NumDevs + NumSms + NumWarps + NumLanes + 1

\* where the traversal is: the indexes of the loops it is in, -1 for a loop
\* not entered yet and PastEnd for a loop it has left
Cursor ==
    CASE pc = "dev_loop" -> <<dev, -1, -1, -1>>
      [] pc = "sm_loop"  -> <<dev, sm, -1, -1>>
      [] pc = "wp_loop"  -> <<dev, sm, wp, -1>>
      [] pc = "ln_loop"  -> <<dev, sm, wp, ln>>
      [] pc = "ln_exit"  -> <<dev, sm, wp, PastEnd>>
      [] pc = "wp_exit"  -> <<dev, sm, PastEnd, PastEnd>>
      [] pc = "sm_exit"  -> <<dev, PastEnd, PastEnd, PastEnd>>
      [] OTHER           -> <<PastEnd, PastEnd, PastEnd, PastEnd>>

\* C25: the construction reaches its end for every topology; every step
\* moves the traversal forward in the lexicographic order of (device, sm,
\* warp, lane), so that no tuple is examined twice or out of ascending
\* order; and once a set built with single has a member, no loop variable
\* and no member changes any more and the construction only leaves the
\* loops.
C25_Termination ==
    /\ <>Done
    /\ [][LexLess(Cursor, Cursor')]_vars
    /\ [][(single /\ Len(m_coord_set) > 0) =>
            /\ UNCHANGED <<dev, sm, wp, ln, m_coord_set>>
            /\ pc' \in {"wp_exit", "sm_exit", "done"}]_vars

\* C25 witness: a finished construction with single over a topology of two
\* devices of different shapes, with one member from a lane that is not the
\* last of the traversal.
C25_Witness ==
    /\ Done
    /\ single
    /\ Len(gpu.devs) = 2
    /\ gpu.devs[1] # gpu.devs[2]
    /\ Len(m_coord_set) = 1
    /\ m_coord_set[1].dev = 0
    /\ device_get_num_sms(1) > 0 /\ device_get_num_lanes(1) > 0

(***************************************************************************)
(* Constructions with an origin                                            *)
(***************************************************************************)
\* the origin argument: fully defined coordinates, of the first or of a
\* later lane
BuildOrigins ==
    {Coords(0, 0, 0, 0, 1, 1, CUDA_IGNORE_DIM, Dim3(0, 0, 0), Dim3(0, 0, 0)),
     LifeOrigin}

OriginSnapshots ==
    {Sparse(p, Other(p, r), "none", l) :
        p \in {<<0, 0, 0, 0>>, <<0, NumSms - 1, NumWarps - 1, NumLanes - 1>>},
        r \in Relations, l \in Layouts}
    \cup {Dense(l) : l \in Layouts}

\* origin.has_value (): m_compare.resetOrigin (*origin) before the loops
InitOrigin ==
    /\ EmptyMap
    /\ NoHost
    /\ NoLife
    /\ \E g \in OriginSnapshots, f \in BuildFilters, t \in SetTypes,
          m \in {{}, {"select_valid"}}, o \in CompareTypes,
          origin \in BuildOrigins :
          InitCtor(g, f, t, m, o, resetOrigin(SequentialCompare, origin))

SpecOrigin == InitOrigin /\ [][NextCoordSet]_vars

\* C27: a construction with an origin never stops at the gdb_assert of the
\* comparator: every pair of coordinates an insertion compares is fully
\* defined in the compared space, at every granularity and in both orders.
C27_OriginNeverAsserts ==
    ~m_compare.seq => pc # "assert_compare"

(***************************************************************************)
(* cuda-corelow.c: loading and freeing a core file                         *)
(***************************************************************************)
\* what the library and the initialisation answer to a load: cuCoreOpenByName
\* returns no handle, cuCoreGetApi returns no API, cuda_initialize leaves
\* cuda_initialized false, or all succeed
LoadOutcomes == {"error_open", "error_api", "error_init", "ok"}

\* cuda_core_load_api (filename), with the outcome out of the library calls:
\* the handle, the installed API and the result of the call
cuda_core_load_api(core, a, f, out) ==
    IF core # nullptr
    THEN [core |-> core, api |-> a, res |-> "assert"]
    ELSE IF out = "error_open"
    THEN [core |-> nullptr, api |-> a, res |-> "error_open"]
    ELSE IF out = "error_api"
    THEN [core |-> f, api |-> a, res |-> "error_api"]
    ELSE IF out = "error_init"
    THEN [core |-> f, api |-> f, res |-> "error_init"]
    ELSE [core |-> f, api |-> f, res |-> "ok"]

\* cuda_core_free (): the handle after the call
cuda_core_free(core) == IF core = nullptr THEN core ELSE nullptr

\* a caller other than the cuda core target loads the API of a core file
LoadApi(f, out) ==
    LET r == cuda_core_load_api(m_cuda_core, api, f, out)
    IN  /\ m_cuda_core' = r.core
        /\ api' = r.api
        /\ core_op' = [op |-> "load", file |-> f, res |-> r.res]
        /\ UNCHANGED <<target, kernelVars, rmVars, inputVars, ctorVars, lifeVars>>

Free ==
    /\ m_cuda_core' = cuda_core_free(m_cuda_core)
    /\ core_op' = [op |-> "free", file |-> 0, res |-> "ok"]
    /\ UNCHANGED <<api, target, kernelVars, rmVars, inputVars, ctorVars, lifeVars>>

\* cuda_core_target::close ()
close(core) == cuda_core_free(core)

\* cuda_core_target_open (filename, from_tty): target_preopen closes the
\* target that is pushed, the constructor of the new target loads the API,
\* the target is pushed, and an error raised while the events and
\* exceptions are read (events_ok false) pops and closes it again
TargetOpen(f, out, events_ok) ==
    LET preopened == IF target # nullptr THEN close(m_cuda_core)
                     ELSE m_cuda_core
        r == cuda_core_load_api(preopened, api, f, out)
    IN  /\ api' = r.api
        /\ IF r.res # "ok"
           THEN /\ m_cuda_core' = r.core
                /\ target' = nullptr
                /\ core_op' = [op |-> "open", file |-> f, res |-> r.res]
           ELSE IF ~events_ok
           THEN /\ m_cuda_core' = close(r.core)
                /\ target' = nullptr
                /\ core_op' = [op |-> "open", file |-> f, res |-> "error_events"]
           ELSE /\ m_cuda_core' = r.core
                /\ target' = f
                /\ core_op' = [op |-> "open", file |-> f, res |-> "ok"]
        /\ UNCHANGED <<kernelVars, rmVars, inputVars, ctorVars, lifeVars>>

\* the pushed target is popped: cuda_core_target::close ()
TargetClose ==
    /\ target # nullptr
    /\ m_cuda_core' = close(m_cuda_core)
    /\ target' = nullptr
    /\ core_op' = [op |-> "close", file |-> 0, res |-> "ok"]
    /\ UNCHANGED <<api, kernelVars, rmVars, inputVars, ctorVars, lifeVars>>

CoreLoad == \E f \in Files, out \in LoadOutcomes : LoadApi(f, out)

CoreOpen ==
    \E f \in Files, out \in LoadOutcomes, events_ok \in BOOLEAN :
        TargetOpen(f, out, events_ok)

InitCore ==
    /\ EmptyMap
    /\ NoHost
    /\ NoLife
    /\ NoCoordSet

NextCore == CoreLoad \/ Free \/ CoreOpen \/ TargetClose

SpecCore == InitCore /\ [][NextCore]_vars

\* C28: in every sequence of loads and frees the assertion at the start of
\* cuda_core_load_api holds; after a load that fails with an error (open,
\* API retrieval or initialisation) the handle is nullptr; cuda_core_free
\* leaves the handle nullptr and a second call changes nothing.
C28_CoreHandleState ==
    /\ core_op.res # "assert"
    /\ (core_op.op \in {"load", "open"}
          /\ core_op.res \in {"error_open", "error_api", "error_init"})
       => m_cuda_core = nullptr
    /\ core_op.op \in {"free", "close"} => m_cuda_core = nullptr
    /\ cuda_core_free(m_cuda_core) = nullptr
    /\ cuda_core_free(cuda_core_free(m_cuda_core)) = cuda_core_free(m_cuda_core)

(***************************************************************************)
(* cuda_kernel::compute_sms_mask                                           *)
(***************************************************************************)
\* cuda_bitset::resize: n bits, the old ones kept, new ones cleared
resize(bits, n) == [i \in 1..n |-> IF i <= Len(bits) THEN bits[i] ELSE FALSE]

\* a fill that leaves the bits as they are
fillKeep(bits, b) == bits

\* cuda_bitset::fill
fill(bits, b) == [i \in 1..Len(bits) |-> b]

\* cuda_bitset::set of the bit at position pos
set(bits, pos) == [bits EXCEPT ![pos + 1] = TRUE]

\* for (const auto &coord : coords) mask.set (coord.physical ().sm ())
RECURSIVE SetAll(_, _)
SetAll(bits, coords) ==
    IF coords = <<>> THEN bits
    ELSE SetAll(set(bits, coords[1].sm), Tail(coords))

\* the filter of compute_sms_mask: every field a wildcard but the kernel id
MaskFilter(k) == [WildCoords EXCEPT !.kernelId = k.m_id]

\* two kernels per device, told apart by the parity of the warp index; a
\* kernel runs on one device only
SplitKernel(x) == 1 + 2 * x[1] + (x[3] % 2)

Split(g) ==
    [g EXCEPT !.warp_info =
        [x \in DOMAIN g.warp_info |->
            [WarpInfo("one", x) EXCEPT
                !.kernel = Kernel(SplitKernel(x), Dim3(0, 0, 0)),
                !.grid_id = SplitKernel(x)]]]

MaskSnapshots ==
    {Split(Sparse(p, Other(p, r), d, "one")) :
        p \in {<<0, 0, 0, 0>>, <<NumDevs - 1, NumSms - 1, NumWarps - 1,
                                 NumLanes - 1>>},
        r \in Relations, d \in Defects}
    \cup {Split(Sparse(<<0, 0, 0, 0>>, <<0, NumSms - 1, NumWarps - 1, 0>>, d,
                       "one")) : d \in Defects}
    \cup {Split(Dense("one"))}

\* what the bitset holds before the call: nothing, one set bit, or one set
\* bit more than the device has SMs
PriorMasks == {<<>>, <<TRUE>>, [i \in 1..(NumSms + 1) |-> TRUE]}

\* cuda_coord_set<sms, select_valid, physical> coords{ filter } at the head
\* of compute_sms_mask
InitMask ==
    /\ EmptyMap
    /\ NoCore
    /\ NoLife
    /\ dbg = NoDbg
    /\ kernel_op = NoKernelOp
    /\ sms_mask \in PriorMasks
    /\ \E g \in MaskSnapshots, id \in 1..(2 * NumDevs) :
          /\ kernel = NewKernel(id, (id - 1) \div 2, id, Dim3(0, 0, 0), 0)
          /\ InitCtor(g, MaskFilter(kernel), "sms", {"select_valid"}, "physical",
                      SequentialCompare)

\* the rest of compute_sms_mask, once the set is built
ComputeSmsMask ==
    /\ pc = "done"
    /\ sms_mask' = SetAll(fill(resize(sms_mask,
                                      device_get_num_sms(kernel.m_dev_id)),
                               FALSE),
                          m_coord_set)
    /\ kernel_op' = [kernel_op EXCEPT !.op = "compute_sms_mask"]
    /\ pc' = "mask_done"
    /\ UNCHANGED <<coreVars, kernel, dbg, rmVars, inputVars, lifeVars,
                   m_compare, m_coord_set, foundKernels, foundBlocks,
                   dev, sm, wp, ln, smCnt, wpCnt>>

NextMask == NextCoordSet \/ ComputeSmsMask

SpecMask == InitMask /\ [][NextMask]_vars

\* C29: after compute_sms_mask the mask has one bit per SM of the kernel's
\* device, and the bit of SM s is set exactly when SM s is valid and has a
\* valid warp bound to the kernel's id with a valid lane, whatever the mask
\* held before.
C29_SmsMask ==
    pc = "mask_done" =>
        LET d == kernel.m_dev_id
        IN  /\ Len(sms_mask) = device_get_num_sms(d)
            /\ \A s \in 0..(device_get_num_sms(d) - 1) :
                  sms_mask[s + 1] <=>
                      /\ sm_valid(d, s)
                      /\ \E w \in 0..(device_get_num_warps(d) - 1) :
                            /\ warp_valid(d, s, w)
                            /\ warp_get_kernel(d, s, w).id = kernel.m_id
                            /\ \E l \in 0..(device_get_num_lanes(d) - 1) :
                                  lane_valid(d, s, w, l)

\* C29 witness: the mask of a kernel came out with a set and a cleared bit,
\* the cleared one for an SM that has a valid warp with a valid lane of the
\* other kernel of the device.
C29_Witness ==
    /\ pc = "mask_done"
    /\ \E s, t \in 1..Len(sms_mask) : sms_mask[s] /\ ~sms_mask[t]
    /\ \E x \in GpuLanes :
          /\ x[1] = kernel.m_dev_id
          /\ ~sms_mask[x[2] + 1]
          /\ validWarp(x[1], x[2], x[3])
          /\ lane_valid(x[1], x[2], x[3], x[4])
          /\ warp_get_kernel(x[1], x[2], x[3]).id # kernel.m_id

(***************************************************************************)
(* cuda_kernel: the cached attributes                                      *)
(***************************************************************************)
\* a counter of API queries stops here
MaxQueries == 2

ClusterDims == {Dim3(0, 0, 0), Dim3(2, 1, 1)}
GridStatuses == {"INVALID", "ACTIVE", "TERMINATED"}

\* an invalidate that forgets the grid status only
invalidateStatusOnly(k) == [k EXCEPT !.m_grid_status_p = FALSE]

\* cuda_kernel::invalidate: the kernel after the call
invalidate(k) == [k EXCEPT !.m_grid_status_p = FALSE, !.m_cluster_dim_p = FALSE]

\* cuda_kernel::cluster_dim: the kernel after the call, info being the
\* answer of cuda_debugapi::get_grid_info
cluster_dim(k, info) ==
    IF ~k.m_cluster_dim_p
    THEN [k EXCEPT !.m_cluster_dim = info, !.m_cluster_dim_p = TRUE]
    ELSE k

\* cuda_kernel::grid_status: the kernel after the call, status being the
\* answer of cuda_debugapi::get_grid_status
grid_status(k, status) ==
    IF ~k.m_grid_status_p
    THEN [k EXCEPT !.m_grid_status = status, !.m_grid_status_p = TRUE]
    ELSE k

\* cuda_kernel::depth: the kernel after the call, parent_depth being
\* parent->depth () of the kernel found for m_parent_grid_id
depth(k, parent_depth) ==
    IF ~k.m_depth_p
    THEN [k EXCEPT !.m_depth = IF k.m_parent_grid_id # 0
                                THEN parent_depth + 1 ELSE 0,
                   !.m_depth_p = TRUE]
    ELSE k

\* the kernel a constructor call leaves, and the answers of the API
InitKernel ==
    /\ EmptyMap
    /\ NoCore
    /\ NoLife
    /\ NoCoordSet
    /\ sms_mask = <<>>
    /\ kernel_op = NoKernelOp
    /\ \E cd \in ClusterDims, parent \in 0..1 :
          kernel = NewKernel(1, 0, 1, cd, parent)
    /\ dbg \in [clusterDim : ClusterDims, status : GridStatuses,
                parent_depth : 0..1]

ClusterDim ==
    /\ kernel_op.q_cluster < MaxQueries
    /\ kernel' = cluster_dim(kernel, dbg.clusterDim)
    /\ kernel_op' = [kernel_op EXCEPT
                       !.op = "cluster_dim",
                       !.res = kernel'.m_cluster_dim,
                       !.q_cluster = IF kernel.m_cluster_dim_p THEN @ ELSE @ + 1]
    /\ UNCHANGED <<coreVars, sms_mask, dbg, rmVars, inputVars, ctorVars, lifeVars>>

GridStatus ==
    /\ kernel_op.q_status < MaxQueries
    /\ kernel' = grid_status(kernel, dbg.status)
    /\ kernel_op' = [kernel_op EXCEPT
                       !.op = "grid_status",
                       !.res = kernel'.m_grid_status,
                       !.q_status = IF kernel.m_grid_status_p THEN @ ELSE @ + 1]
    /\ UNCHANGED <<coreVars, sms_mask, dbg, rmVars, inputVars, ctorVars, lifeVars>>

Depth ==
    /\ kernel' = depth(kernel, dbg.parent_depth)
    /\ kernel_op' = [kernel_op EXCEPT !.op = "depth", !.res = kernel'.m_depth]
    /\ UNCHANGED <<coreVars, sms_mask, dbg, rmVars, inputVars, ctorVars, lifeVars>>

Invalidate ==
    /\ kernel' = invalidate(kernel)
    /\ kernel_op' = [kernel_op EXCEPT
                       !.op = "invalidate", !.res = <<>>, !.invalidated = TRUE,
                       !.q_cluster = 0, !.q_status = 0]
    /\ UNCHANGED <<coreVars, sms_mask, dbg, rmVars, inputVars, ctorVars, lifeVars>>

\* the grid moves on: the debug API answers differently from now on
ApiChange ==
    /\ dbg' \in [clusterDim : ClusterDims, status : GridStatuses,
                 parent_depth : {dbg.parent_depth}]
    /\ dbg' # dbg
    /\ kernel_op' = [kernel_op EXCEPT !.op = "none", !.res = <<>>]
    /\ UNCHANGED <<coreVars, kernel, sms_mask, rmVars, inputVars, ctorVars, lifeVars>>

NextKernel == ClusterDim \/ GridStatus \/ Depth \/ Invalidate \/ ApiChange

SpecKernel == InitKernel /\ [][NextKernel]_vars

\* C30: between two invalidate () calls the debug API is queried at most
\* once for the cluster dimension and at most once for the grid status;
\* until the first invalidate () the cluster dimension of the constructor is
\* returned without a query; the first read of an attribute after an
\* invalidate () queries the API and returns its answer; invalidate ()
\* leaves the cached depth as it is.
C30_KernelCaching ==
    /\ [](/\ kernel_op.q_cluster <= 1
          /\ kernel_op.q_status <= 1
          /\ ~kernel_op.invalidated => kernel_op.q_cluster = 0)
    /\ [][/\ (kernel_op'.op = "cluster_dim" /\ ~kernel_op.invalidated)
               => kernel_op'.res = kernel.m_cluster_dim
          /\ (kernel_op'.op = "cluster_dim" /\ kernel_op.invalidated
                /\ kernel_op.q_cluster = 0)
               => (kernel_op'.q_cluster = 1 /\ kernel_op'.res = dbg.clusterDim)
          /\ (kernel_op'.op = "grid_status" /\ kernel_op.q_status = 0)
               => (kernel_op'.q_status = 1 /\ kernel_op'.res = dbg.status)
          /\ kernel_op'.op = "invalidate"
               => (/\ kernel'.m_depth_p = kernel.m_depth_p
                   /\ kernel'.m_depth = kernel.m_depth)]_vars

\* C30 witness: after an invalidate () the cluster dimension was read twice
\* with one query, it is not the one the API answers by now, and the depth
\* computed before the invalidate () is still cached.
C30_Witness ==
    /\ kernel_op.op = "cluster_dim"
    /\ kernel_op.invalidated
    /\ kernel_op.q_cluster = 1
    /\ kernel_op.res # dbg.clusterDim
    /\ kernel.m_depth_p
    /\ kernel.m_depth = 2

(***************************************************************************)
(* The interval map on its own                                              *)
(***************************************************************************)
InitRangemap ==
    /\ EmptyMap
    /\ NoHost
    /\ NoCoordSet
    /\ NoLife

NextRangemap == RmAdd \/ RmRemove \/ RmGet

SpecRangemap == InitRangemap /\ [][NextRangemap]_vars

(***************************************************************************)
(* Properties of the interval map                                          *)
(***************************************************************************)
\* the stored ranges, as records
Ranges(m) == {[start |-> k, end |-> m[k].end, value |-> m[k].value] : k \in Keys(m)}

Contains(r, addr) == r.start <= addr /\ addr < r.end

\* the ranges [s1, e1) and [s2, e2) share an address
Overlap(s1, e1, s2, e2) == \E a \in 0..MaxAddr : s1 <= a /\ a < e1 /\ s2 <= a /\ a < e2

\* what a point lookup must return: the value of the stored range holding addr
Lookup(m, addr) ==
    IF \E r \in Ranges(m) : Contains(r, addr)
    THEN (CHOOSE r \in Ranges(m) : Contains(r, addr)).value
    ELSE Absent

\* C1: get(addr) returns the value of the stored range [start, end) with
\* start <= addr < end, and absent when no stored range holds addr; in
\* particular get(end) is absent when no stored range starts at end.
C1_GetIsPointLookup ==
    \A a \in Addrs : get(m_ranges, a) = Lookup(m_ranges, a)

C4_DisjointAccepted ==
    [][(/\ rm_op'.op = "add"
        /\ rm_op'.size > 0
        /\ \A r \in Ranges(m_ranges) :
              /\ r.start < r.end
              /\ ~Overlap(r.start, r.end, rm_op'.start, rm_op'.start + rm_op'.size))
       => (/\ rm_op'.res = "ok"
           /\ m_ranges' = AddResult(m_ranges, rm_op'.start, rm_op'.size, rm_op'.value))]_vars

\* a range was added between two stored ranges, adjacent to both
C4_Witness ==
    /\ rm_op.op = "add" /\ rm_op.res = "ok" /\ rm_op.size > 0
    /\ \E r1, r2 \in Ranges(m_ranges) :
          /\ r1.start < r1.end /\ r2.start < r2.end
          /\ r1.end = rm_op.start
          /\ r2.start = rm_op.start + rm_op.size
    /\ \A r \in Ranges(m_ranges) : r.start < r.end

\* C5: remove_range(addr) removes exactly the stored range holding addr, and
\* leaves the map unchanged when no stored range holds addr, also when addr
\* is the exclusive end of a stored range.
C5_RemoveExactlyContaining ==
    [][(rm_op'.op = "remove")
       => (m_ranges' =
             [k \in {r.start : r \in {x \in Ranges(m_ranges) :
                                          ~Contains(x, rm_op'.addr)}}
                |-> m_ranges[k]])]_vars

\* C6: after remove_range(a) removed the range [s, e) holding a, get is absent
\* on every address of [s, e), and the same range can be added again with a
\* new value, which get then returns.
C6_SpaceReclaimed ==
    [][(rm_op'.op = "remove")
       => \A r \in Ranges(m_ranges) :
             Contains(r, rm_op'.addr)
             => /\ \A x \in r.start..(r.end - 1) : get(m_ranges', x) = Absent
                /\ AddAssertOK(m_ranges', r.start, r.end - r.start)
                /\ \A v \in Values, x \in r.start..(r.end - 1) :
                      get(AddResult(m_ranges', r.start, r.end - r.start, v), x) = v]_vars

\* C26: an add that passes the assertion only adds: every range stored
\* before the call is stored after it with the same start, end and value,
\* and the number of stored ranges grows by exactly one, also for size 0
\* and for a start that is the start of a stored range.
C26_AddOnlyAdds ==
    [][(rm_op'.op = "add" /\ rm_op'.res = "ok")
       => (/\ Ranges(m_ranges) \subseteq Ranges(m_ranges')
           /\ Cardinality(Ranges(m_ranges')) = Cardinality(Ranges(m_ranges)) + 1)]_vars

====
